---- MODULE Spec2Model ----
(***************************************************************************)
(* A model of zerocopy's cast engine and of the typed view `Ref<B, T>`.    *)
(*                                                                         *)
(* Memory is one aligned allocation `buf.t` of MemSize bytes that starts   *)
(* at address 0 (the tests' `Align<[u8; N], AU64>`); a byte slice is a      *)
(* record [addr, len] into it.  Every constructor and every operation of   *)
(* `Ref` is one action; the outcome of the last constructor is kept in     *)
(* `res`, the live `Ref` in `r`, and the last operation on it in `out`.    *)
(***************************************************************************)
EXTENDS Integers, Sequences, FiniteSets, TLC

VARIABLES mem, arg, res, r, out, panicked

vars == <<mem, arg, res, r, out, panicked>>

-----------------------------------------------------------------------------
(* Bounds *)

\* Number of bytes of the allocation the byte slices are taken from.
MemSize == 4

\* usize::MAX, scaled down so that the checked arithmetic can overflow.
UsizeMax == 63

\* Largest in-range element count handed to the `_with_elems` constructors.
MaxCount == 3

-----------------------------------------------------------------------------
(* Bytes, slices, values *)

Byte == 0..255

\* The byte values the model writes into memory: 0 is the bit pattern that
\* NonZeroU16 rejects, 2 the smallest one that bool rejects.
ByteVals == {0, 2}

Addrs == 0..(MemSize - 1)

Slice(addr, len) == [addr |-> addr, len |-> len]

NoSlice == [addr |-> 0 - 1, len |-> 0]

\* Every `&buf.t[a..b]`.
Slices == {s \in [addr : 0..MemSize, len : 0..MemSize] : s.addr + s.len <= MemSize}

\* The bytes a slice dereferences to.
SliceBytes(m, s) == [i \in 1..s.len |-> m[s.addr + i - 1]]

Some(v) == [some |-> TRUE, v |-> v]

None == [some |-> FALSE, v |-> 0]

-----------------------------------------------------------------------------
(* Layouts *)

Sized(size, align) ==
    [align |-> align, kind |-> "Sized", size |-> size, offset |-> 0, elem_size |-> 0]

SliceDst(offset, elem_size, align) ==
    [align |-> align, kind |-> "SliceDst", size |-> 0, offset |-> offset,
     elem_size |-> elem_size]

\* "slice_arr3" is `[[u8; 3]]`; it is used where the count alone is of interest.
\* u16 stands for the tests' AU64: the smallest type with alignment > 1.
\* "dst212" is `#[repr(C)] struct { u16, [u8] }`.
SizedTypes == {"u8", "u16", "arr3", "bool", "NonZeroU16"}

DstTypes == {"slice_u8", "slice_u16", "dst212"}

\* Unsized types whose trailing elements are zero-sized: { [u8; 2], [()] }
\* and { u16, [()] }.
ZstTypes == {"zsty", "zsty16"}

Types == SizedTypes \cup DstTypes

LAYOUT(T) ==
    CASE T = "u8"         -> Sized(1, 1)
      [] T = "u16"        -> Sized(2, 2)
      [] T = "arr3"       -> Sized(3, 1)
      [] T = "bool"       -> Sized(1, 1)
      [] T = "NonZeroU16" -> Sized(2, 2)
      [] T = "slice_u8"   -> SliceDst(0, 1, 1)
      [] T = "slice_u16"  -> SliceDst(0, 2, 2)
      [] T = "dst212"     -> SliceDst(2, 1, 2)
      [] T = "slice_arr3" -> SliceDst(0, 3, 1)
      [] T = "zsty"       -> SliceDst(2, 0, 1)
      [] T = "zsty16"     -> SliceDst(2, 0, 2)

size_of(T) == LAYOUT(T).size

align_of(T) == LAYOUT(T).align

\* T: FromBytes (every bit pattern is a valid T).
FromBytes(T) ==
    T \in {"u8", "u16", "arr3", "slice_u8", "slice_u16", "dst212", "slice_arr3",
           "zsty", "zsty16"}

\* T: IntoBytes.
IntoBytes(T) == T \in {"u8", "u16", "arr3", "NonZeroU16", "bool", "slice_u8", "slice_u16"}

\* The validity predicate of T on a candidate of the right size.
\* Mutant: an off-by-one in the bool's bound.
is_bit_valid_up_to_two(T, bytes) ==
    CASE T = "bool"       -> bytes[1] <= 2
      [] T = "NonZeroU16" -> \E i \in DOMAIN bytes : bytes[i] # 0
      [] OTHER            -> TRUE

is_bit_valid(T, bytes) ==
    CASE T = "bool"       -> bytes[1] < 2
      [] T = "NonZeroU16" -> \E i \in 1..Len(bytes) : bytes[i] # 0
      [] OTHER            -> TRUE

aligned_to(addr, align) == addr % align = 0

padding_needed_for(len, align) == (align - (len % align)) % align

checked_mul(a, b) == IF a * b > UsizeMax THEN None ELSE Some(a * b)

checked_add(a, b) == IF a + b > UsizeMax THEN None ELSE Some(a + b)

checked_sub(a, b) == IF a < b THEN None ELSE Some(a - b)

\* impl PointerMetadata for ()
\* A variant of the unit metadata that reads a size out of any layout.
size_for_metadata_unit_any(layout) == Some(layout.size)

\* impl PointerMetadata for ()
size_for_metadata_unit(layout) ==
    IF layout.kind = "Sized" THEN Some(layout.size) ELSE None

\* Mutant: the arithmetic wraps instead of being checked.
size_for_metadata_wrapping(count, layout) ==
    IF layout.kind = "SliceDst"
    THEN LET without_padding ==
                 (layout.offset + layout.elem_size * count) % (UsizeMax + 1)
         IN  Some((without_padding + padding_needed_for(without_padding, layout.align))
                     % (UsizeMax + 1))
    ELSE None

\* impl PointerMetadata for usize
size_for_metadata(count, layout) ==
    IF layout.kind = "SliceDst"
    THEN LET slice_len == checked_mul(layout.elem_size, count) IN
         IF ~slice_len.some THEN None
         ELSE LET without_padding == checked_add(layout.offset, slice_len.v) IN
              IF ~without_padding.some THEN None
              ELSE checked_add(without_padding.v,
                               padding_needed_for(without_padding.v, layout.align))
    ELSE None

-----------------------------------------------------------------------------
(* The layout algebra: DstLayout::new_zst, for_type, for_slice, extend and
   pad_to_align.  repr_align and repr_packed are Option<NonZeroUsize>. *)

min(a, b) == IF a < b THEN a ELSE b

max(a, b) == IF a > b THEN a ELSE b

LayoutOk(layout) == [status |-> "Ok", layout |-> layout]

LayoutPanic == [status |-> "Panic", layout |-> Sized(0, 1)]

\* A variant of new_zst that starts at alignment 1 whatever is asked.
new_zst_unaligned(repr_align) == Sized(0, 1)

new_zst(repr_align) == Sized(0, IF repr_align.some THEN repr_align.v ELSE 1)

for_type(T) == Sized(size_of(T), align_of(T))

for_slice(T) == SliceDst(0, size_of(T), align_of(T))

\* Mutant: the field is placed at the base's end, without padding.
extend_unpadded(base, field, repr_packed) ==
    IF base.kind # "Sized" THEN LayoutPanic
    ELSE LET field_align == IF repr_packed.some THEN min(field.align, repr_packed.v)
                                                ELSE field.align
             align == max(base.align, field_align)
         IN  IF field.kind = "Sized"
             THEN LayoutOk(Sized(base.size + field.size, align))
             ELSE LayoutOk(SliceDst(base.size + field.offset, field.elem_size, align))

\* Mutant: a dynamically sized base is extended as if its offset were its size.
extend_any_base(base, field, repr_packed) ==
    LET field_align == IF repr_packed.some THEN min(field.align, repr_packed.v)
                                           ELSE field.align
        align == max(base.align, field_align)
        end == IF base.kind = "Sized" THEN base.size ELSE base.offset
        offset == end + padding_needed_for(end, field_align)
    IN  IF field.kind = "Sized"
        THEN LayoutOk(Sized(offset + field.size, align))
        ELSE LayoutOk(SliceDst(offset + field.offset, field.elem_size, align))

extend(base, field, repr_packed) ==
    IF base.kind # "Sized" THEN LayoutPanic
    ELSE LET field_align == IF repr_packed.some THEN min(field.align, repr_packed.v)
                                                ELSE field.align
             align == max(base.align, field_align)
             padding == padding_needed_for(base.size, field_align)
             offset == base.size + padding
         IN  IF field.kind = "Sized"
             THEN LayoutOk(Sized(offset + field.size, align))
             ELSE LayoutOk(SliceDst(offset + field.offset, field.elem_size, align))

\* Mutant: the size is rounded up to the next multiple even when it is one.
pad_to_align_always(layout) ==
    IF layout.kind = "Sized"
    THEN Sized(layout.size + (layout.align - (layout.size % layout.align)), layout.align)
    ELSE layout

pad_to_align(layout) ==
    IF layout.kind = "Sized"
    THEN Sized(layout.size + padding_needed_for(layout.size, layout.align), layout.align)
    ELSE layout

-----------------------------------------------------------------------------
(* Results of a cast *)

CastOk(ref, rest) ==
    [status |-> "Ok", err |-> "None", src |-> NoSlice, ref |-> ref, rest |-> rest]

CastErr(kind, src) ==
    [status |-> "Err", err |-> kind, src |-> src, ref |-> NoSlice, rest |-> NoSlice]

\* SplitByteSlice::split_at_unchecked: (x[..mid], x[mid..]).
\* A variant of split_at_unchecked whose second half keeps the whole length.
split_at_unchecked_long(slice, mid) ==
    <<Slice(slice.addr, mid), Slice(slice.addr + mid, slice.len)>>

split_at_unchecked(slice, mid) ==
    <<Slice(slice.addr, mid), Slice(slice.addr + mid, slice.len - mid)>>

\* try_split_at: Ok((x[..mid], x[mid..])) if mid <= len, else Err(x).
try_split_at(slice, mid) ==
    IF mid <= slice.len
    THEN [ok |-> TRUE, split |-> split_at_unchecked(slice, mid), slice |-> NoSlice]
    ELSE [ok |-> FALSE, split |-> <<NoSlice, NoSlice>>, slice |-> slice]

\* SplitByteSlice::split_at: the halves of try_split_at, or panic!("mid > len").
slice_split_at(slice, mid) ==
    LET splits == try_split_at(slice, mid) IN
    IF splits.ok THEN [status |-> "Ok", split |-> splits.split]
    ELSE [status |-> "Panic", split |-> <<NoSlice, NoSlice>>]

-----------------------------------------------------------------------------
(* The cast engine *)

\* Step 1 of the cast: the size the candidate must have.  With a count it is
\* size_for_metadata; for a Sized layout it is the size; for a slice DST with
\* no count it is the size of the largest instance that fits in len bytes.
required_size(len, layout, meta) ==
    IF meta.some THEN size_for_metadata(meta.v, layout)
    ELSE IF layout.kind = "Sized" THEN size_for_metadata_unit(layout)
    ELSE LET max_total == len - (len % layout.align) IN
         IF max_total < layout.offset THEN None
         ELSE LET elems == (max_total - layout.offset) \div layout.elem_size
                  without_padding == layout.offset + elems * layout.elem_size
              IN  Some(without_padding
                         + padding_needed_for(without_padding, layout.align))

\* The element count of the pointer a successful cast yields: the count asked
\* for, or else the largest one that fits.
trailing_elems(len, layout, meta) ==
    IF meta.some THEN meta.v
    ELSE IF layout.kind = "Sized" \/ layout.elem_size = 0 THEN 0
    ELSE ((len - (len % layout.align)) - layout.offset) \div layout.elem_size

\* The candidate and the remainder of a cast of `bytes` that needs `size`.
candidate_of(bytes, size, mode) ==
    IF mode = "Suffix" THEN Slice(bytes.addr + bytes.len - size, size)
                       ELSE Slice(bytes.addr, size)

remainder_of(bytes, size, mode) ==
    IF mode = "Suffix" THEN Slice(bytes.addr, bytes.len - size)
                       ELSE Slice(bytes.addr + size, bytes.len - size)

\* try_cast: size, then alignment of the candidate, then the split.
TryCast(bytes, layout, meta, mode) ==
    LET req == required_size(bytes.len, layout, meta) IN
    IF ~req.some THEN CastErr("Size", bytes)
    ELSE IF (mode = "Exact" /\ bytes.len # req.v) \/ bytes.len < req.v
         THEN CastErr("Size", bytes)
    ELSE IF ~aligned_to(candidate_of(bytes, req.v, mode).addr, layout.align)
         THEN CastErr("Alignment", bytes)
    ELSE CastOk(candidate_of(bytes, req.v, mode), remainder_of(bytes, req.v, mode))

\* Ptr::try_cast_into::<T, _>(cast_type, meta)
try_cast_into(bytes, T, cast_type, meta) == TryCast(bytes, LAYOUT(T), meta, cast_type)

\* Ptr::try_cast_into_no_leftover::<T, _>(meta)
try_cast_into_no_leftover(bytes, T, meta) == TryCast(bytes, LAYOUT(T), meta, "Exact")

\* Ptr::try_into_valid: the validity predicate on the candidate's bytes.
try_into_valid(m, T, cast) ==
    IF is_bit_valid(T, SliceBytes(m, cast.ref)) THEN cast
    ELSE CastErr("Validity", cast.ref)

-----------------------------------------------------------------------------
(* Constructors of Ref (ref.rs) *)

Unalign(L) == [L EXCEPT !.align = 1]

\* Mutant: the length is only required to be large enough.
sized_from_at_least(bytes, L) ==
    IF bytes.len < L.size THEN CastErr("Size", bytes)
    ELSE IF ~aligned_to(bytes.addr, L.align) THEN CastErr("Alignment", bytes)
    ELSE CastOk(bytes, NoSlice)

sized_from(bytes, L) ==
    IF bytes.len # L.size THEN CastErr("Size", bytes)
    ELSE IF ~aligned_to(bytes.addr, L.align) THEN CastErr("Alignment", bytes)
    ELSE CastOk(bytes, NoSlice)

\* Mutant: the alignment is checked before the size.
sized_from_prefix_align_first(bytes, L) ==
    IF ~aligned_to(bytes.addr, L.align) THEN CastErr("Alignment", bytes)
    ELSE IF bytes.len < L.size THEN CastErr("Size", bytes)
    ELSE LET s == try_split_at(bytes, L.size) IN
         IF ~s.ok THEN CastErr("Size", s.slice)
         ELSE CastOk(s.split[1], s.split[2])

sized_from_prefix(bytes, L) ==
    IF bytes.len < L.size THEN CastErr("Size", bytes)
    ELSE IF ~aligned_to(bytes.addr, L.align) THEN CastErr("Alignment", bytes)
    ELSE LET s == try_split_at(bytes, L.size) IN
         IF ~s.ok THEN CastErr("Size", s.slice)
         ELSE CastOk(s.split[1], s.split[2])

\* Mutant: the two halves of the split are returned in the wrong order.
sized_from_suffix_swapped(bytes, L) ==
    LET split_at == checked_sub(bytes.len, L.size) IN
    IF ~split_at.some THEN CastErr("Size", bytes)
    ELSE LET s == try_split_at(bytes, split_at.v) IN
         IF ~s.ok THEN CastErr("Size", s.slice)
         ELSE IF ~aligned_to(s.split[2].addr, L.align)
              THEN CastErr("Alignment", s.split[2])
         ELSE CastOk(s.split[1], s.split[2])

\* Mutant: the alignment of the suffix is not checked.
sized_from_suffix_unchecked(bytes, L) ==
    LET split_at == checked_sub(bytes.len, L.size) IN
    IF ~split_at.some THEN CastErr("Size", bytes)
    ELSE LET s == try_split_at(bytes, split_at.v) IN
         IF ~s.ok THEN CastErr("Size", s.slice)
         ELSE CastOk(s.split[2], s.split[1])

sized_from_suffix(bytes, L) ==
    LET split_at == checked_sub(bytes.len, L.size) IN
    IF ~split_at.some THEN CastErr("Size", bytes)
    ELSE LET s == try_split_at(bytes, split_at.v) IN
         IF ~s.ok THEN CastErr("Size", s.slice)
         ELSE IF ~aligned_to(s.split[2].addr, L.align)
              THEN CastErr("Alignment", s.split[2])
         ELSE CastOk(s.split[2], s.split[1])

\* util::assert_dst_is_not_zst: T is not an unsized type whose trailing
\* elements are zero-sized.  It is evaluated when the call is compiled.
assert_dst_is_not_zst(T) ==
    ~(LAYOUT(T).kind = "SliceDst" /\ LAYOUT(T).elem_size = 0)

\* The outcome of a call whose compile-time assertion fails: the call is
\* rejected, and nothing of the buffer is looked at.
DstIsZst ==
    [status |-> "Rejected", err |-> "dst_is_zst", src |-> NoSlice,
     ref |-> NoSlice, rest |-> NoSlice]

\* A variant of from that is content with the elements that fit.
from_whole_elems(bytes, T) ==
    IF ~assert_dst_is_not_zst(T) THEN DstIsZst ELSE
    LET c == try_cast_into(bytes, T, "Prefix", None) IN
    IF c.status = "Err" THEN CastErr(c.err, bytes)
    ELSE CastOk(bytes, NoSlice)

from(bytes, T) ==
    IF ~assert_dst_is_not_zst(T) THEN DstIsZst ELSE
    LET c == try_cast_into_no_leftover(bytes, T, None) IN
    IF c.status = "Err" THEN CastErr(c.err, bytes)
    ELSE CastOk(bytes, NoSlice)

from_prefix(bytes, T) ==
    IF ~assert_dst_is_not_zst(T) THEN DstIsZst ELSE
    LET c == try_cast_into(bytes, T, "Prefix", None) IN
    IF c.status = "Err" THEN CastErr(c.err, bytes)
    ELSE LET split_at == bytes.len - c.rest.len
             s == try_split_at(bytes, split_at)
         IN  IF ~s.ok THEN CastErr("Size", s.slice)
             ELSE CastOk(s.split[1], s.split[2])

\* Mutant: the suffix is split where the prefix would be (issue #506).
from_suffix_as_prefix(bytes, T) ==
    IF ~assert_dst_is_not_zst(T) THEN DstIsZst ELSE
    LET c == try_cast_into(bytes, T, "Suffix", None) IN
    IF c.status = "Err" THEN CastErr(c.err, bytes)
    ELSE LET split_at == bytes.len - c.rest.len
             s == try_split_at(bytes, split_at)
         IN  IF ~s.ok THEN CastErr("Size", s.slice)
             ELSE CastOk(s.split[2], s.split[1])

\* A variant of from_suffix that also wants the start of the buffer aligned.
from_suffix_start_aligned(bytes, T) ==
    IF ~assert_dst_is_not_zst(T) THEN DstIsZst ELSE
    LET c == try_cast_into(bytes, T, "Suffix", None) IN
    IF c.status = "Err" THEN CastErr(c.err, bytes)
    ELSE IF ~aligned_to(bytes.addr, align_of(T)) THEN CastErr("Alignment", bytes)
    ELSE LET split_at == c.rest.len
             s == try_split_at(bytes, split_at)
         IN  IF ~s.ok THEN CastErr("Size", s.slice)
             ELSE CastOk(s.split[2], s.split[1])

from_suffix(bytes, T) ==
    IF ~assert_dst_is_not_zst(T) THEN DstIsZst ELSE
    LET c == try_cast_into(bytes, T, "Suffix", None) IN
    IF c.status = "Err" THEN CastErr(c.err, bytes)
    ELSE LET split_at == c.rest.len
             s == try_split_at(bytes, split_at)
         IN  IF ~s.ok THEN CastErr("Size", s.slice)
             ELSE CastOk(s.split[2], s.split[1])

\* Mutant: the trailing padding is left out of the expected length.
from_prefix_with_elems_unpadded(bytes, count, T) ==
    IF ~assert_dst_is_not_zst(T) THEN DstIsZst ELSE
    LET slice_len == checked_mul(LAYOUT(T).elem_size, count)
        expected_len == IF slice_len.some
                        THEN checked_add(LAYOUT(T).offset, slice_len.v) ELSE None
    IN
    IF ~expected_len.some THEN CastErr("Size", bytes)
    ELSE IF bytes.len < expected_len.v THEN CastErr("Size", bytes)
    ELSE LET s == split_at_unchecked(bytes, expected_len.v)
             l == from(s[1], T)
         IN  IF l.status = "Ok" THEN CastOk(l.ref, s[2]) ELSE l

from_prefix_with_elems(bytes, count, T) ==
    IF ~assert_dst_is_not_zst(T) THEN DstIsZst ELSE
    LET expected_len == size_for_metadata(count, LAYOUT(T)) IN
    IF ~expected_len.some THEN CastErr("Size", bytes)
    ELSE IF bytes.len < expected_len.v THEN CastErr("Size", bytes)
    ELSE LET s == split_at_unchecked(bytes, expected_len.v)
             l == from(s[1], T)
         IN  IF l.status = "Ok" THEN CastOk(l.ref, s[2]) ELSE l

\* Mutant: the expected length wraps around instead of failing.
from_suffix_with_elems_wrapping(bytes, count, T) ==
    IF ~assert_dst_is_not_zst(T) THEN DstIsZst ELSE
    LET expected_len == size_for_metadata_wrapping(count, LAYOUT(T)) IN
    LET split_at == checked_sub(bytes.len, expected_len.v) IN
    IF ~split_at.some THEN CastErr("Size", bytes)
    ELSE LET s == split_at_unchecked(bytes, split_at.v)
             l == from(s[2], T)
         IN  IF l.status = "Ok" THEN CastOk(l.ref, s[1]) ELSE l

from_suffix_with_elems(bytes, count, T) ==
    IF ~assert_dst_is_not_zst(T) THEN DstIsZst ELSE
    LET expected_len == size_for_metadata(count, LAYOUT(T)) IN
    IF ~expected_len.some THEN CastErr("Size", bytes)
    ELSE LET split_at == checked_sub(bytes.len, expected_len.v) IN
         IF ~split_at.some THEN CastErr("Size", bytes)
         ELSE LET s == split_at_unchecked(bytes, split_at.v)
                  l == from(s[2], T)
              IN  IF l.status = "Ok" THEN CastOk(l.ref, s[1]) ELSE l

\* Mutant: a type of alignment 2 is declared Unaligned.
UnalignedWithU16(T) == T \in {"u8", "u16", "arr3", "bool", "slice_u8", "slice_arr3"}

\* T: Unaligned
Unaligned(T) == T \in {"u8", "arr3", "bool", "slice_u8", "slice_arr3"}

\* The match of the unaligned_ constructors on the error of the aligned one.
UnalignedErr(c) ==
    IF c.status = "Err" /\ c.err = "Alignment"
    THEN [c EXCEPT !.status = "Panic", !.err = "unreachable"]
    ELSE c

unaligned_from(bytes, T) ==
    IF ~assert_dst_is_not_zst(T) THEN DstIsZst ELSE
    UnalignedErr(from(bytes, T))

unaligned_from_prefix(bytes, T) ==
    IF ~assert_dst_is_not_zst(T) THEN DstIsZst ELSE
    UnalignedErr(from_prefix(bytes, T))

unaligned_from_suffix(bytes, T) ==
    IF ~assert_dst_is_not_zst(T) THEN DstIsZst ELSE
    UnalignedErr(from_suffix(bytes, T))

unaligned_from_prefix_with_elems(bytes, count, T) ==
    UnalignedErr(from_prefix_with_elems(bytes, count, T))

unaligned_from_suffix_with_elems(bytes, count, T) ==
    UnalignedErr(from_suffix_with_elems(bytes, count, T))

-----------------------------------------------------------------------------
(* Reference casts of FromBytes and TryFromBytes (lib.rs) *)

\* Mutant: the counted cast makes the assertion of the count-less ones.
ref_from_with_trailing_elements_asserting(bytes, count, T) ==
    IF ~assert_dst_is_not_zst(T) THEN DstIsZst ELSE
    LET c == try_cast_into_no_leftover(bytes, T, Some(count)) IN
    IF c.status = "Ok" THEN CastOk(c.ref, NoSlice) ELSE c

ref_from_with_trailing_elements(bytes, count, T) ==
    LET c == try_cast_into_no_leftover(bytes, T, Some(count)) IN
    IF c.status = "Ok" THEN CastOk(c.ref, NoSlice) ELSE c

ref_from(bytes, T) ==
    IF ~assert_dst_is_not_zst(T) THEN DstIsZst ELSE
    LET c == try_cast_into_no_leftover(bytes, T, None) IN
    IF c.status = "Ok" THEN CastOk(c.ref, NoSlice) ELSE c

ref_from_prefix_suffix(bytes, T, meta, cast_type) == try_cast_into(bytes, T, cast_type, meta)

ref_from_prefix(bytes, T) ==
    IF ~assert_dst_is_not_zst(T) THEN DstIsZst ELSE
    ref_from_prefix_suffix(bytes, T, None, "Prefix")

ref_from_suffix(bytes, T) ==
    IF ~assert_dst_is_not_zst(T) THEN DstIsZst ELSE
    ref_from_prefix_suffix(bytes, T, None, "Suffix")

ref_from_prefix_with_trailing_elements(bytes, count, T) ==
    ref_from_prefix_suffix(bytes, T, Some(count), "Prefix")

ref_from_suffix_with_trailing_elements(bytes, count, T) ==
    ref_from_prefix_suffix(bytes, T, Some(count), "Suffix")

\* Mutant: the bytes are validated before the cast is.
try_ref_from_validity_first(m, bytes, T) ==
    IF ~assert_dst_is_not_zst(T) THEN DstIsZst ELSE
    IF T \in SizedTypes /\ bytes.len >= size_of(T)
       /\ ~is_bit_valid(T, SliceBytes(m, Slice(bytes.addr, size_of(T))))
    THEN CastErr("Validity", bytes)
    ELSE LET c == try_cast_into_no_leftover(bytes, T, None) IN
         IF c.status = "Ok" THEN try_into_valid(m, T, CastOk(c.ref, NoSlice)) ELSE c

try_ref_from(m, bytes, T) ==
    IF ~assert_dst_is_not_zst(T) THEN DstIsZst ELSE
    LET c == try_cast_into_no_leftover(bytes, T, None) IN
    IF c.status = "Ok" THEN try_into_valid(m, T, CastOk(c.ref, NoSlice)) ELSE c

try_ref_from_prefix_suffix(m, bytes, T, cast_type, meta) ==
    LET c == try_cast_into(bytes, T, cast_type, meta) IN
    IF c.status = "Ok" THEN try_into_valid(m, T, c) ELSE c

try_ref_from_prefix(m, bytes, T) ==
    IF ~assert_dst_is_not_zst(T) THEN DstIsZst ELSE
    try_ref_from_prefix_suffix(m, bytes, T, "Prefix", None)

try_ref_from_suffix(m, bytes, T) ==
    IF ~assert_dst_is_not_zst(T) THEN DstIsZst ELSE
    try_ref_from_prefix_suffix(m, bytes, T, "Suffix", None)

-----------------------------------------------------------------------------
(* Values and their bytes (native byte order is little-endian) *)

ValueOf(T, bytes) ==
    CASE T = "u8"         -> bytes[1]
      [] T = "u16"        -> bytes[1] + 256 * bytes[2]
      [] T = "NonZeroU16" -> bytes[1] + 256 * bytes[2]
      [] T = "bool"       -> (bytes[1] = 1)
      [] OTHER            -> bytes

ValueBytes(T, v) ==
    CASE T = "u8"         -> <<v>>
      [] T = "u16"        -> <<v % 256, v \div 256>>
      [] T = "NonZeroU16" -> <<v % 256, v \div 256>>
      [] T = "bool"       -> <<IF v THEN 1 ELSE 0>>
      [] OTHER            -> v

\* The values of T the model stores: the valid ones whose bytes are in ByteVals.
Values(T) ==
    {ValueOf(T, b) : b \in {x \in [1..size_of(T) -> ByteVals] : is_bit_valid(T, x)}}

\* ptr::write of `bytes` at `addr`.
WriteMem(m, addr, bytes) ==
    [a \in DOMAIN m |-> IF a >= addr /\ a < addr + Len(bytes)
                        THEN bytes[a - addr + 1] ELSE m[a]]

\* ptr::read of a T at the start of the slice.
ReadVal(m, bytes, T) == ValueOf(T, [i \in 1..size_of(T) |-> m[bytes.addr + i - 1]])

-----------------------------------------------------------------------------
(* Copy-in writes (lib.rs): `t` of type T is copied into the slice `bytes` of
   the memory m; the result is the status and the memory afterwards *)

\* IntoBytes::as_bytes
as_bytes(T, t) == ValueBytes(T, t)

WriteToOk(m) == [status |-> "Ok", err |-> "None", mem |-> m]

\* Err(SizeError::new(self)): the target is left as it was.
WriteToErr(m) == [status |-> "Err", err |-> "Size", mem |-> m]

\* IntoBytes::write_to
write_to(m, bytes, T, t) ==
    IF bytes.len # size_of(T) THEN WriteToErr(m)
    ELSE WriteToOk(WriteMem(m, bytes.addr, as_bytes(T, t)))

\* IntoBytes::write_to_prefix: bytes.get_mut(..size)
write_to_prefix(m, bytes, T, t) ==
    LET size == size_of(T) IN
    IF size <= bytes.len
    THEN WriteToOk(WriteMem(m, bytes.addr, as_bytes(T, t)))
    ELSE WriteToErr(m)

\* A variant of write_to_suffix that copies to the front of the target.
write_to_suffix_at_front(m, bytes, T, t) ==
    LET start == checked_sub(bytes.len, size_of(T)) IN
    IF ~start.some THEN WriteToErr(m)
    ELSE WriteToOk(WriteMem(m, bytes.addr, as_bytes(T, t)))

\* IntoBytes::write_to_suffix: bytes.get_mut(start..)
write_to_suffix(m, bytes, T, t) ==
    LET start == checked_sub(bytes.len, size_of(T)) IN
    IF ~start.some THEN WriteToErr(m)
    ELSE WriteToOk(WriteMem(m, bytes.addr + start.v, as_bytes(T, t)))

-----------------------------------------------------------------------------
(* Copy-out reads (lib.rs): the input is `data` at address `addr` *)

ReadOk(v) == [status |-> "Ok", err |-> "None", val |-> v]

ReadErr(kind) == [status |-> "Err", err |-> kind, val |-> 0]

ReadPanic == [status |-> "Panic", err |-> "unreachable", val |-> 0]

\* r.read() of the Ref<_, Unalign<T>> a sized constructor returned over
\* `data`: the size_of::<T>() bytes at the Ref's address, still untyped.
ReadOfCast(c, addr, data, T) ==
    IF c.status = "Ok"
    THEN ReadOk(SubSeq(data, c.ref.addr - addr + 1, c.ref.addr - addr + size_of(T)))
    ELSE IF c.err = "Size" THEN ReadErr("Size")
    ELSE ReadPanic

\* Unalign::into_inner of a read.
into_inner(rd, T) == IF rd.status = "Ok" THEN ReadOk(ValueOf(T, rd.val)) ELSE rd

\* Mutant: the Ref is built for T itself, not for Unalign<T>.
read_from_aligned(addr, data, T) ==
    into_inner(ReadOfCast(sized_from(Slice(addr, Len(data)), LAYOUT(T)),
                          addr, data, T), T)

read_from(addr, data, T) ==
    into_inner(ReadOfCast(sized_from(Slice(addr, Len(data)), Unalign(LAYOUT(T))),
                          addr, data, T), T)

read_from_prefix(addr, data, T) ==
    into_inner(ReadOfCast(sized_from_prefix(Slice(addr, Len(data)), Unalign(LAYOUT(T))),
                          addr, data, T), T)

read_from_suffix(addr, data, T) ==
    into_inner(ReadOfCast(sized_from_suffix(Slice(addr, Len(data)), Unalign(LAYOUT(T))),
                          addr, data, T), T)

\* MaybeUninit::<T>::read_from, then is_bit_valid on the local copy.
try_read_from(addr, data, T) ==
    LET candidate == ReadOfCast(sized_from(Slice(addr, Len(data)), Unalign(LAYOUT(T))),
                                addr, data, T)
    IN  IF candidate.status = "Err" THEN ReadErr("Size")
        ELSE IF candidate.status = "Panic" THEN candidate
        ELSE IF ~is_bit_valid(T, candidate.val) THEN ReadErr("Validity")
        ELSE ReadOk(ValueOf(T, candidate.val))

-----------------------------------------------------------------------------
(* State *)

\* arg is the next call's input: the byte slice `bytes` (shared or mutable),
\* the target type T and the element count.
NoRes ==
    [op |-> "none", status |-> "None", err |-> "None", src |-> NoSlice,
     ref |-> NoSlice, rest |-> NoSlice, data |-> <<>>, val |-> 0]

NoRef == [live |-> FALSE, bytes |-> NoSlice, T |-> "u8", mutable |-> FALSE]

NoOut == [op |-> "none", val |-> 0, wrote |-> None]

Counts == 0..MaxCount \cup {UsizeMax \div 2 + 1}

Args ==
    {a \in [bytes : Slices, T : Types, count : Counts, mutable : BOOLEAN] :
        a.T \in SizedTypes => a.count = 0}

\* Before the caller has chosen: the whole allocation, as bytes.
NoArg == [bytes |-> Slice(0, MemSize), T |-> "u8", count |-> 0, mutable |-> FALSE]

Init ==
    /\ mem = [a \in Addrs |-> 0]
    /\ arg = NoArg
    /\ res = NoRes
    /\ r = NoRef
    /\ out = NoOut
    /\ panicked = FALSE

\* The caller slices the allocation anew and names the target type.
Pick ==
    /\ res.op = "none"
    /\ arg = NoArg
    /\ arg' \in Args
    /\ UNCHANGED <<mem, res, r, out, panicked>>

\* Scope exit: the Ref or reference and the last result are dropped.
Drop ==
    /\ res.op # "none"
    /\ res' = NoRes
    /\ r' = NoRef
    /\ out' = NoOut
    /\ arg' = NoArg
    /\ UNCHANGED <<mem, panicked>>

\* The outcome `c` of constructor `op`; on success the Ref replaces `r`.
Construct(op, c) ==
    /\ res' = [op |-> op, status |-> c.status, err |-> c.err, src |-> c.src,
               ref |-> c.ref, rest |-> c.rest, data |-> <<>>, val |-> 0]
    /\ r' = IF c.status = "Ok"
            THEN [live |-> TRUE, bytes |-> c.ref, T |-> arg.T, mutable |-> arg.mutable]
            ELSE NoRef
    /\ out' = NoOut
    /\ UNCHANGED <<mem, arg, panicked>>

\* The outcome `c` of a cast that returns a `&T` or `&mut T`, not a Ref.
Cast(op, c) ==
    /\ res' = [op |-> op, status |-> c.status, err |-> c.err, src |-> c.src,
               ref |-> c.ref, rest |-> c.rest, data |-> <<>>, val |-> 0]
    /\ r' = NoRef
    /\ out' = NoOut
    /\ UNCHANGED <<mem, arg, panicked>>

\* The outcome `rd` of a copy-out read of `data`.
Copy(op, data, rd) ==
    /\ res' = [op |-> op, status |-> rd.status, err |-> rd.err, src |-> NoSlice,
               ref |-> NoSlice, rest |-> NoSlice, data |-> data, val |-> rd.val]
    /\ r' = NoRef
    /\ out' = NoOut
    /\ UNCHANGED <<mem, panicked>>

-----------------------------------------------------------------------------
(* Actions: constructors *)

SizedFrom ==
    /\ arg.T \in SizedTypes
    /\ Construct("sized_from", sized_from(arg.bytes, LAYOUT(arg.T)))

SizedFromPrefix ==
    /\ arg.T \in SizedTypes
    /\ Construct("sized_from_prefix", sized_from_prefix(arg.bytes, LAYOUT(arg.T)))

SizedFromSuffix ==
    /\ arg.T \in SizedTypes
    /\ Construct("sized_from_suffix", sized_from_suffix(arg.bytes, LAYOUT(arg.T)))

From == Construct("from", from(arg.bytes, arg.T))

FromPrefix == Construct("from_prefix", from_prefix(arg.bytes, arg.T))

FromSuffix == Construct("from_suffix", from_suffix(arg.bytes, arg.T))

FromPrefixWithElems ==
    /\ arg.T \in DstTypes \cup ZstTypes
    /\ Construct("from_prefix_with_elems",
                 from_prefix_with_elems(arg.bytes, arg.count, arg.T))

FromSuffixWithElems ==
    /\ arg.T \in DstTypes \cup ZstTypes
    /\ Construct("from_suffix_with_elems",
                 from_suffix_with_elems(arg.bytes, arg.count, arg.T))

(* Actions: reference casts; ref_from on a shared slice, mut_from on a mutable one *)

RefFrom ==
    /\ FromBytes(arg.T)
    /\ Cast("ref_from", ref_from(arg.bytes, arg.T))

RefFromPrefix ==
    /\ FromBytes(arg.T)
    /\ Cast("ref_from_prefix", ref_from_prefix(arg.bytes, arg.T))

RefFromSuffix ==
    /\ FromBytes(arg.T)
    /\ Cast("ref_from_suffix", ref_from_suffix(arg.bytes, arg.T))

TryRefFrom == Cast("try_ref_from", try_ref_from(mem, arg.bytes, arg.T))

TryRefFromPrefix ==
    Cast("try_ref_from_prefix", try_ref_from_prefix(mem, arg.bytes, arg.T))

TryRefFromSuffix ==
    Cast("try_ref_from_suffix", try_ref_from_suffix(mem, arg.bytes, arg.T))

(* Actions: copy-out reads of the bytes the slice dereferences to *)

ReadFrom ==
    /\ arg.T \in SizedTypes /\ FromBytes(arg.T)
    /\ Copy("read_from", SliceBytes(mem, arg.bytes),
            read_from(arg.bytes.addr, SliceBytes(mem, arg.bytes), arg.T))
    /\ UNCHANGED arg

ReadFromPrefix ==
    /\ arg.T \in SizedTypes /\ FromBytes(arg.T)
    /\ Copy("read_from_prefix", SliceBytes(mem, arg.bytes),
            read_from_prefix(arg.bytes.addr, SliceBytes(mem, arg.bytes), arg.T))
    /\ UNCHANGED arg

ReadFromSuffix ==
    /\ arg.T \in SizedTypes /\ FromBytes(arg.T)
    /\ Copy("read_from_suffix", SliceBytes(mem, arg.bytes),
            read_from_suffix(arg.bytes.addr, SliceBytes(mem, arg.bytes), arg.T))
    /\ UNCHANGED arg

TryReadFrom ==
    /\ arg.T \in SizedTypes
    /\ Copy("try_read_from", SliceBytes(mem, arg.bytes),
            try_read_from(arg.bytes.addr, SliceBytes(mem, arg.bytes), arg.T))
    /\ UNCHANGED arg

-----------------------------------------------------------------------------
(* Actions: operations of a live Ref (ref.rs) *)

\* The element type of a slice type.
ElemType(T) == IF T = "slice_u16" THEN "u16" ELSE "u8"

\* The re-cast that deref, deref_mut, into_ref and into_mut perform.
Recast(rr) == try_cast_into_no_leftover(rr.bytes, rr.T, None)

\* `*r` for a Ref whose re-cast succeeded.
DerefVal(m, rr) == ValueOf(rr.T, SliceBytes(m, Recast(rr).ref))

Out(op, val) == [op |-> op, val |-> val, wrote |-> None]

Read ==
    /\ r.live /\ r.T \in SizedTypes /\ FromBytes(r.T)
    /\ out' = [op |-> "read", val |-> ReadVal(mem, r.bytes, r.T),
               wrote |-> IF out.op = "write" THEN Some(out.val) ELSE None]
    /\ UNCHANGED <<mem, arg, res, r, panicked>>

\* Mutant: only the first byte of the value is stored.
WriteFirstByte ==
    /\ r.live /\ r.mutable /\ r.T \in SizedTypes /\ IntoBytes(r.T)
    /\ \E t \in Values(r.T) :
          /\ mem' = WriteMem(mem, r.bytes.addr, SubSeq(ValueBytes(r.T, t), 1, 1))
          /\ out' = Out("write", t)
    /\ UNCHANGED <<arg, res, r, panicked>>

Write ==
    /\ r.live /\ r.mutable /\ r.T \in SizedTypes /\ IntoBytes(r.T)
    /\ \E t \in Values(r.T) :
          /\ mem' = WriteMem(mem, r.bytes.addr, ValueBytes(r.T, t))
          /\ out' = Out("write", t)
    /\ UNCHANGED <<arg, res, r, panicked>>

Bytes ==
    /\ r.live
    /\ out' = Out("bytes", SliceBytes(mem, r.bytes))
    /\ UNCHANGED <<mem, arg, res, r, panicked>>

\* A variant of BytesMut that a Ref over a shared buffer could call too.
BytesMutShared ==
    /\ r.live
    /\ \E i \in 0..(r.bytes.len - 1), b \in ByteVals :
          /\ mem' = [mem EXCEPT ![r.bytes.addr + i] = b]
          /\ out' = Out("bytes_mut", <<i, b>>)
    /\ UNCHANGED <<arg, res, r, panicked>>

BytesMut ==
    /\ r.live /\ r.mutable
    /\ \E i \in 0..(r.bytes.len - 1), b \in ByteVals :
          /\ mem' = [mem EXCEPT ![r.bytes.addr + i] = b]
          /\ out' = Out("bytes_mut", <<i, b>>)
    /\ UNCHANGED <<arg, res, r, panicked>>

Deref ==
    /\ r.live /\ FromBytes(r.T)
    /\ IF Recast(r).status = "Ok"
       THEN out' = Out("deref", DerefVal(mem, r)) /\ UNCHANGED panicked
       ELSE out' = Out("deref", 0) /\ panicked' = TRUE
    /\ UNCHANGED <<mem, arg, res, r>>

\* Mutant: the store goes to a copy of the bytes, not to the buffer.
DerefMutOfCopy ==
    /\ r.live /\ r.mutable /\ FromBytes(r.T) /\ IntoBytes(r.T)
    /\ IF r.T \in SizedTypes
       THEN \E t \in Values(r.T) : out' = Out("deref_mut", t)
       ELSE \E i \in 0..((r.bytes.len \div size_of(ElemType(r.T))) - 1),
               t \in Values(ElemType(r.T)) : out' = Out("deref_mut_elem", <<i, t>>)
    /\ UNCHANGED <<mem, arg, res, r, panicked>>

\* `*r = t` for a sized T, `r[i] = t` for a slice.
DerefMut ==
    /\ r.live /\ r.mutable /\ FromBytes(r.T) /\ IntoBytes(r.T)
    /\ IF Recast(r).status = "Ok"
       THEN /\ UNCHANGED panicked
            /\ IF r.T \in SizedTypes
               THEN \E t \in Values(r.T) :
                       /\ mem' = WriteMem(mem, Recast(r).ref.addr, ValueBytes(r.T, t))
                       /\ out' = Out("deref_mut", t)
               ELSE \E i \in 0..((Recast(r).ref.len \div size_of(ElemType(r.T))) - 1),
                       t \in Values(ElemType(r.T)) :
                       /\ mem' = WriteMem(mem, Recast(r).ref.addr
                                                 + i * size_of(ElemType(r.T)),
                                          ValueBytes(ElemType(r.T), t))
                       /\ out' = Out("deref_mut_elem", <<i, t>>)
       ELSE out' = Out("deref_mut", 0) /\ panicked' = TRUE /\ UNCHANGED mem
    /\ UNCHANGED <<arg, res, r>>

\* Only a shared `&[u8]` is a CloneableByteSlice.
Clone ==
    /\ r.live /\ ~r.mutable
    /\ r' = [r EXCEPT !.bytes = Slice(r.bytes.addr, r.bytes.len)]
    /\ out' = Out("clone", 0)
    /\ UNCHANGED <<mem, arg, res, panicked>>

IntoRef ==
    /\ r.live /\ FromBytes(r.T)
    /\ IF Recast(r).status = "Ok"
       THEN out' = Out("into_ref", DerefVal(mem, r)) /\ UNCHANGED panicked
       ELSE out' = Out("into_ref", 0) /\ panicked' = TRUE
    /\ r' = NoRef
    /\ UNCHANGED <<mem, arg, res>>

IntoMut ==
    /\ r.live /\ r.mutable /\ FromBytes(r.T) /\ IntoBytes(r.T)
    /\ IF Recast(r).status = "Ok"
       THEN out' = Out("into_mut", DerefVal(mem, r)) /\ UNCHANGED panicked
       ELSE out' = Out("into_mut", 0) /\ panicked' = TRUE
    /\ r' = NoRef
    /\ UNCHANGED <<mem, arg, res>>

-----------------------------------------------------------------------------

Next ==
    \/ Pick \/ Drop
    \/ SizedFrom \/ SizedFromPrefix \/ SizedFromSuffix
    \/ From \/ FromPrefix \/ FromSuffix
    \/ FromPrefixWithElems \/ FromSuffixWithElems
    \/ RefFrom \/ RefFromPrefix \/ RefFromSuffix
    \/ TryRefFrom \/ TryRefFromPrefix \/ TryRefFromSuffix
    \/ ReadFrom \/ ReadFromPrefix \/ ReadFromSuffix \/ TryReadFrom
    \/ Read \/ Write \/ Bytes \/ BytesMut \/ Deref \/ DerefMut \/ Clone
    \/ IntoRef \/ IntoMut

Spec == Init /\ [][Next]_vars

(* size_for_metadata alone, for every element count a usize holds *)

MaxOffset == 4

MaxElemSize == 4

MaxAlignExp == 3

Aligns == {2 ^ k : k \in 0..MaxAlignExp}

SliceDstLayouts ==
    {SliceDst(o, e, a) : o \in 0..MaxOffset, e \in 0..MaxElemSize, a \in Aligns}

SizedLayouts == {Sized(s, a) : s \in 0..MaxOffset, a \in Aligns}

NoSizeArg == [layout |-> SliceDst(0, 1, 1), count |-> 0]

InitSize ==
    /\ mem = [a \in Addrs |-> 0]
    /\ arg = NoSizeArg
    /\ res = NoRes
    /\ r = NoRef
    /\ out = NoOut
    /\ panicked = FALSE

\* The caller chooses a trailing-slice layout and an element count.
PickSize ==
    /\ res.op = "none"
    /\ arg = NoSizeArg
    /\ arg' \in [layout : SliceDstLayouts \cup SizedLayouts, count : 0..UsizeMax]
    /\ UNCHANGED <<mem, res, r, out, panicked>>

SizeForMetadata ==
    /\ res.op = "none"
    /\ res' = [NoRes EXCEPT !.op = "size_for_metadata",
                            !.val = size_for_metadata(arg.count, arg.layout)]
    /\ UNCHANGED <<mem, arg, r, out, panicked>>

\* ().size_for_metadata(layout): no panic path, whatever the layout.
SizeForMetadataUnit ==
    /\ res.op = "none"
    /\ res' = [NoRes EXCEPT !.op = "size_for_metadata_unit",
                            !.val = size_for_metadata_unit(arg.layout)]
    /\ UNCHANGED <<mem, arg, r, out, panicked>>

DropSize ==
    /\ res.op # "none"
    /\ res' = NoRes
    /\ arg' = NoSizeArg
    /\ UNCHANGED <<mem, r, out, panicked>>

NextSize == PickSize \/ SizeForMetadata \/ SizeForMetadataUnit \/ DropSize

SpecSize == InitSize /\ [][NextSize]_vars

(***************************************************************************)
(* Splitting a byte slice: the caller holds any slice of a buffer with any *)
(* contents and splits it at any midpoint, within the slice or beyond it.  *)
(***************************************************************************)
Mids == 0..(MemSize + 1)

NoSplitArg == [bytes |-> Slice(0, MemSize), mid |-> 0]

InitSplit ==
    /\ mem \in [Addrs -> ByteVals]
    /\ arg = NoSplitArg
    /\ res = NoRes
    /\ r = NoRef
    /\ out = NoOut
    /\ panicked = FALSE

PickSplit ==
    /\ res.op = "none"
    /\ arg = NoSplitArg
    /\ arg' \in [bytes : Slices, mid : Mids]
    /\ UNCHANGED <<mem, res, r, out, panicked>>

\* bytes.split_at(mid); res.data keeps what the slice held before the call.
SplitAt ==
    /\ res.op = "none"
    /\ LET splits == slice_split_at(arg.bytes, arg.mid) IN
          /\ res' = [NoRes EXCEPT !.op = "split_at", !.status = splits.status,
                                  !.ref = splits.split[1], !.rest = splits.split[2],
                                  !.data = SliceBytes(mem, arg.bytes)]
          /\ panicked' = (splits.status = "Panic")
    /\ UNCHANGED <<mem, arg, r, out>>

\* try_split_at(bytes, mid)
TrySplitAt ==
    /\ res.op = "none"
    /\ LET splits == try_split_at(arg.bytes, arg.mid) IN
          res' = [NoRes EXCEPT !.op = "try_split_at",
                               !.status = IF splits.ok THEN "Ok" ELSE "Err",
                               !.ref = splits.split[1], !.rest = splits.split[2],
                               !.src = splits.slice,
                               !.data = SliceBytes(mem, arg.bytes)]
    /\ UNCHANGED <<mem, arg, r, out, panicked>>

DropSplit ==
    /\ res.op # "none"
    /\ res' = NoRes
    /\ arg' = NoSplitArg
    /\ panicked' = FALSE
    /\ UNCHANGED <<mem, r, out>>

NextSplit == PickSplit \/ SplitAt \/ TrySplitAt \/ DropSplit

SpecSplit == InitSplit /\ [][NextSplit]_vars

(***************************************************************************)
(* Copy-in writes: the caller holds a value t of a Sized IntoBytes type    *)
(* and a mutable slice of a buffer with any contents.  res.data keeps the  *)
(* memory as it was before the call.                                       *)
(***************************************************************************)
WriteTypes == {T \in SizedTypes : IntoBytes(T)}

NoWriteArg == [bytes |-> Slice(0, MemSize), T |-> "u8", t |-> 0]

InitWrite ==
    /\ mem \in [Addrs -> ByteVals]
    /\ arg = NoWriteArg
    /\ res = NoRes
    /\ r = NoRef
    /\ out = NoOut
    /\ panicked = FALSE

PickWrite ==
    /\ res.op = "none"
    /\ arg = NoWriteArg
    /\ \E bytes \in Slices, T \in WriteTypes :
          \E t \in Values(T) : arg' = [bytes |-> bytes, T |-> T, t |-> t]
    /\ UNCHANGED <<mem, res, r, out, panicked>>

\* The outcome `w` of the write `op`.
CopyIn(op, w) ==
    /\ res.op = "none"
    /\ res' = [NoRes EXCEPT !.op = op, !.status = w.status, !.err = w.err,
                            !.data = mem]
    /\ mem' = w.mem
    /\ UNCHANGED <<arg, r, out, panicked>>

WriteTo == CopyIn("write_to", write_to(mem, arg.bytes, arg.T, arg.t))

WriteToPrefix == CopyIn("write_to_prefix", write_to_prefix(mem, arg.bytes, arg.T, arg.t))

WriteToSuffix == CopyIn("write_to_suffix", write_to_suffix(mem, arg.bytes, arg.T, arg.t))

DropWrite ==
    /\ res.op # "none"
    /\ res' = NoRes
    /\ arg' = NoWriteArg
    /\ UNCHANGED <<mem, r, out, panicked>>

NextWrite == PickWrite \/ WriteTo \/ WriteToPrefix \/ WriteToSuffix \/ DropWrite

SpecWrite == InitWrite /\ [][NextWrite]_vars

(***************************************************************************)
(* Validity checks and aliasing.  UnsafeCell<bool> and UnsafeCell<u8> have *)
(* the layout and the bit validity of what they wrap and are not           *)
(* Immutable.  A validity check records the aliasing of the candidate it   *)
(* was given: Shared for Ptr::from_ref, Exclusive for Ptr::from_mut.       *)
(***************************************************************************)
CellTypes == {"bool", "u8", "cell_bool", "cell_u8"}

\* T: Immutable
Immutable(T) == T \notin {"cell_bool", "cell_u8"}

\* The T of UnsafeCell<T>.
CellInner(T) ==
    CASE T = "cell_bool" -> "bool"
      [] T = "cell_u8"   -> "u8"
      [] OTHER           -> T

\* TryFromBytes::is_bit_valid on a candidate with the given aliasing: the
\* impl for UnsafeCell<T> needs into_exclusive_or_post_monomorphization_error
\* and then delegates to T::is_bit_valid.
is_bit_valid_aliased(T, bytes, aliasing) ==
    IF ~Immutable(T) /\ aliasing = "Shared"
    THEN [fatal |-> TRUE, valid |-> FALSE]
    ELSE [fatal |-> FALSE, valid |-> is_bit_valid(CellInner(T), bytes)]

NoCellRes ==
    [op |-> "none", status |-> "None", err |-> "None", aliasing |-> "None",
     checked |-> FALSE]

\* The cast of `bytes`, then the validity check through `aliasing`.
try_cast_valid(op, m, bytes, T, cast_type, aliasing) ==
    LET c == try_cast_into(bytes, CellInner(T), cast_type, None) IN
    IF c.status # "Ok"
    THEN [NoCellRes EXCEPT !.op = op, !.status = c.status, !.err = c.err]
    ELSE LET v == is_bit_valid_aliased(T, SliceBytes(m, c.ref), aliasing) IN
         [op |-> op, aliasing |-> aliasing, checked |-> TRUE,
          status |-> IF v.fatal THEN "Panic" ELSE IF v.valid THEN "Ok" ELSE "Err",
          err |-> IF v.fatal THEN "post_monomorphization_error"
                  ELSE IF v.valid THEN "None" ELSE "Validity"]

NoCellArg == [bytes |-> Slice(0, MemSize), T |-> "u8", mutable |-> FALSE]

InitCell ==
    /\ mem \in [Addrs -> ByteVals]
    /\ arg = NoCellArg
    /\ res = NoCellRes
    /\ r = NoRef
    /\ out = NoOut
    /\ panicked = FALSE

PickCell ==
    /\ res.op = "none"
    /\ arg = NoCellArg
    /\ arg' \in [bytes : Slices, T : CellTypes, mutable : BOOLEAN]
    /\ UNCHANGED <<mem, res, r, out, panicked>>

\* The outcome `c` of a validating cast.
ValidatedCast(c) ==
    /\ res.op = "none"
    /\ res' = c
    /\ panicked' = (c.status = "Panic")
    /\ UNCHANGED <<mem, arg, r, out>>

\* A variant of TryRefFromShared without the bound Self: Immutable.
TryRefFromSharedAnyType ==
    \E cast_type \in {"Exact", "Prefix", "Suffix"} :
        ValidatedCast(try_cast_valid("try_ref_from", mem, arg.bytes, arg.T,
                                     cast_type, "Shared"))

\* try_ref_from, try_ref_from_prefix, try_ref_from_suffix: Self: Immutable,
\* Ptr::from_ref.
TryRefFromShared ==
    /\ Immutable(arg.T)
    /\ \E cast_type \in {"Exact", "Prefix", "Suffix"} :
          ValidatedCast(try_cast_valid("try_ref_from", mem, arg.bytes, arg.T,
                                       cast_type, "Shared"))

\* try_mut_from, try_mut_from_prefix, try_mut_from_suffix: bytes: &mut [u8],
\* Ptr::from_mut.
TryMutFrom ==
    /\ arg.mutable
    /\ \E cast_type \in {"Exact", "Prefix", "Suffix"} :
          ValidatedCast(try_cast_valid("try_mut_from", mem, arg.bytes, arg.T,
                                       cast_type, "Exclusive"))

\* try_read_from: the bytes are copied into a local MaybeUninit<Self>, of
\* alignment 1 as seen from the cast, and checked through Ptr::from_mut.
TryReadFromCopy ==
    ValidatedCast(
        IF arg.bytes.len # size_of(CellInner(arg.T))
        THEN [NoCellRes EXCEPT !.op = "try_read_from", !.status = "Err", !.err = "Size"]
        ELSE LET v == is_bit_valid_aliased(arg.T, SliceBytes(mem, arg.bytes), "Exclusive")
             IN  [op |-> "try_read_from", aliasing |-> "Exclusive", checked |-> TRUE,
                  status |-> IF v.fatal THEN "Panic" ELSE IF v.valid THEN "Ok" ELSE "Err",
                  err |-> IF v.fatal THEN "post_monomorphization_error"
                          ELSE IF v.valid THEN "None" ELSE "Validity"])

DropCell ==
    /\ res.op # "none"
    /\ res' = NoCellRes
    /\ arg' = NoCellArg
    /\ panicked' = FALSE
    /\ UNCHANGED <<mem, r, out>>

NextCell == PickCell \/ TryRefFromShared \/ TryMutFrom \/ TryReadFromCopy \/ DropCell

SpecCell == InitCell /\ [][NextCell]_vars

(* One extend or pad_to_align, on arbitrary layouts *)

MaxLayoutSize == 5

MaxLayoutElem == 2

AnyLayouts ==
    {Sized(n, a) : n \in 0..MaxLayoutSize, a \in Aligns}
    \cup {SliceDst(o, e, a) : o \in 0..MaxLayoutSize, e \in 0..MaxLayoutElem, a \in Aligns}

Packings == {None} \cup {Some(a) : a \in Aligns}

NoExtendArg == [base |-> Sized(0, 1), field |-> Sized(0, 1), packed |-> None]

InitExtend ==
    /\ mem = [a \in Addrs |-> 0]
    /\ arg = NoExtendArg
    /\ res = NoRes
    /\ r = NoRef
    /\ out = NoOut
    /\ panicked = FALSE

\* Any base, any field and any packing that does not lower the base's alignment.
PickExtend ==
    /\ res.op = "none"
    /\ arg = NoExtendArg
    /\ arg' \in {x \in [base : AnyLayouts, field : AnyLayouts, packed : Packings] :
                    x.packed.some => x.base.align <= x.packed.v}
    /\ UNCHANGED <<mem, res, r, out, panicked>>

Extend ==
    /\ res.op = "none"
    /\ LET composite == extend(arg.base, arg.field, arg.packed) IN
          /\ res' = [NoRes EXCEPT !.op = "extend", !.status = composite.status,
                                  !.val = composite.layout]
          /\ panicked' = (composite.status = "Panic")
    /\ UNCHANGED <<mem, arg, r, out>>

PadToAlign ==
    /\ res.op = "none"
    /\ res' = [NoRes EXCEPT !.op = "pad_to_align", !.status = "Ok",
                            !.val = pad_to_align(arg.base)]
    /\ UNCHANGED <<mem, arg, r, out, panicked>>

DropExtend ==
    /\ res.op # "none"
    /\ res' = NoRes
    /\ arg' = NoExtendArg
    /\ panicked' = FALSE
    /\ UNCHANGED <<mem, r, out>>

NextExtend == PickExtend \/ Extend \/ PadToAlign \/ DropExtend

SpecExtend == InitExtend /\ [][NextExtend]_vars

(***************************************************************************)
(* The layout of a repr(C) composite, as test_known_layout_derive computes *)
(* the expected layout of a derived type: new_zst(repr_align), extended by *)
(* the fields in declaration order under the packing cap, then             *)
(* pad_to_align.  arg holds the composition in progress.                   *)
(***************************************************************************)
MaxFields == 3

MaxReprAlignExp == 6

\* struct AlignSize<const ALIGN: usize, const SIZE: usize>
AlignSize(ALIGN, SIZE) == Sized(SIZE, ALIGN)

AU16 == AlignSize(2, 2)

AU32 == AlignSize(4, 4)

AU64 == AlignSize(8, 8)

\* The field types of the test: (), u8, AU16, AU32, AU64, [()], [u8], [AU16],
\* and a type that itself ends in a slice (KL10 used as a field).
FieldLayouts ==
    {Sized(0, 1), for_type("u8"), AU16, AU32, AU64,
     SliceDst(0, 0, 1), for_slice("u8"), for_slice("u16"), SliceDst(4, 1, 4)}

ReprAligns == {None} \cup {Some(2 ^ k) : k \in 0..MaxReprAlignExp}

\* repr(align(N)) and repr(packed(N)) are never given together.
Reprs ==
    {x \in [repr_align : ReprAligns, packed : Packings] :
        ~(x.repr_align.some /\ x.packed.some)}

NoLayoutArg ==
    [started |-> FALSE, repr_align |-> None, packed |-> None,
     fields |-> <<>>, layout |-> Sized(0, 1), padded |-> FALSE]

InitLayout ==
    /\ mem = [a \in Addrs |-> 0]
    /\ arg = NoLayoutArg
    /\ res = NoRes
    /\ r = NoRef
    /\ out = NoOut
    /\ panicked = FALSE

\* DstLayout::new_zst(repr_align)
NewZst ==
    /\ ~arg.started
    /\ \E x \in Reprs :
          arg' = [NoLayoutArg EXCEPT !.started = TRUE,
                                     !.repr_align = x.repr_align,
                                     !.packed = x.packed,
                                     !.layout = new_zst(x.repr_align)]
    /\ UNCHANGED <<mem, res, r, out, panicked>>

\* A variant of ExtendField that forgets the packing cap.
ExtendFieldNoCap ==
    /\ arg.started
    /\ ~arg.padded
    /\ ~panicked
    /\ Len(arg.fields) < MaxFields
    /\ \E field \in FieldLayouts :
          LET composite == extend(arg.layout, field, None) IN
             /\ arg' = [arg EXCEPT !.fields = Append(@, field),
                                   !.layout = IF composite.status = "Ok"
                                              THEN composite.layout ELSE @]
             /\ panicked' = (composite.status = "Panic")
    /\ UNCHANGED <<mem, res, r, out>>

\* .extend(field, repr_packed)
ExtendField ==
    /\ arg.started
    /\ ~arg.padded
    /\ ~panicked
    /\ Len(arg.fields) < MaxFields
    /\ \E field \in FieldLayouts :
          LET composite == extend(arg.layout, field, arg.packed) IN
             /\ arg' = [arg EXCEPT !.fields = Append(@, field),
                                   !.layout = IF composite.status = "Ok"
                                              THEN composite.layout ELSE @]
             /\ panicked' = (composite.status = "Panic")
    /\ UNCHANGED <<mem, res, r, out>>

\* A variant of PadLayout that marks the composite finished without padding it.
PadLayoutSkipped ==
    /\ arg.started
    /\ ~arg.padded
    /\ ~panicked
    /\ arg' = [arg EXCEPT !.padded = TRUE]
    /\ UNCHANGED <<mem, res, r, out, panicked>>

\* .pad_to_align()
PadLayout ==
    /\ arg.started
    /\ ~arg.padded
    /\ ~panicked
    /\ arg' = [arg EXCEPT !.layout = pad_to_align(@), !.padded = TRUE]
    /\ UNCHANGED <<mem, res, r, out, panicked>>

DropLayout ==
    /\ arg.started
    /\ arg' = NoLayoutArg
    /\ panicked' = FALSE
    /\ UNCHANGED <<mem, res, r, out>>

NextLayout == NewZst \/ ExtendField \/ PadLayout \/ DropLayout

SpecLayout == InitLayout /\ [][NextLayout]_vars

(* Casts with an explicit element count, over a longer buffer *)

BigSize == 10

MaxElems == 9

BigSlices ==
    {s \in [addr : 0..BigSize, len : 0..BigSize] : s.addr + s.len <= BigSize}

\* Counts that fit the buffer and counts whose size exceeds a usize.
ElemCounts == 0..MaxElems \cup {UsizeMax \div 2 + 1, UsizeMax - 1, UsizeMax}

ElemArgs ==
    [bytes : BigSlices, T : DstTypes \cup {"slice_arr3"}, count : ElemCounts,
     mutable : {FALSE}]

InitElems ==
    /\ mem = [a \in 0..(BigSize - 1) |-> 0]
    /\ arg = NoArg
    /\ res = NoRes
    /\ r = NoRef
    /\ out = NoOut
    /\ panicked = FALSE

PickElems ==
    /\ res.op = "none"
    /\ arg = NoArg
    /\ arg' \in ElemArgs
    /\ UNCHANGED <<mem, res, r, out, panicked>>

\* The outcome `c` of an unaligned_ constructor, whose alignment arm panics.
ConstructUnaligned(op, c) ==
    /\ res' = [op |-> op, status |-> c.status, err |-> c.err, src |-> c.src,
               ref |-> c.ref, rest |-> c.rest, data |-> <<>>, val |-> 0]
    /\ r' = IF c.status = "Ok"
            THEN [live |-> TRUE, bytes |-> c.ref, T |-> arg.T, mutable |-> arg.mutable]
            ELSE NoRef
    /\ out' = NoOut
    /\ panicked' = (panicked \/ c.status = "Panic")
    /\ UNCHANGED <<mem, arg>>

UnalignedFromPrefixWithElems ==
    /\ LAYOUT(arg.T).kind = "SliceDst" /\ Unaligned(arg.T)
    /\ ConstructUnaligned("unaligned_from_prefix_with_elems",
                          unaligned_from_prefix_with_elems(arg.bytes, arg.count, arg.T))

UnalignedFromSuffixWithElems ==
    /\ LAYOUT(arg.T).kind = "SliceDst" /\ Unaligned(arg.T)
    /\ ConstructUnaligned("unaligned_from_suffix_with_elems",
                          unaligned_from_suffix_with_elems(arg.bytes, arg.count, arg.T))

\* The outcome `c` of a counted cast; on success the `&T` carries `elems`
\* trailing elements.
CastCounted(op, c, elems) ==
    /\ res' = [op |-> op, status |-> c.status, err |-> c.err, src |-> c.src,
               ref |-> c.ref, rest |-> c.rest, data |-> <<>>,
               val |-> IF c.status = "Ok" THEN elems ELSE 0]
    /\ r' = NoRef
    /\ out' = NoOut
    /\ UNCHANGED <<mem, arg, panicked>>

RefFromWithTrailingElements ==
    /\ arg.T \in DstTypes \cup ZstTypes /\ FromBytes(arg.T)
    /\ CastCounted("ref_from_with_trailing_elements",
                   ref_from_with_trailing_elements(arg.bytes, arg.count, arg.T),
                   trailing_elems(arg.bytes.len, LAYOUT(arg.T), Some(arg.count)))

RefFromPrefixWithTrailingElements ==
    /\ arg.T \in DstTypes \cup ZstTypes /\ FromBytes(arg.T)
    /\ CastCounted("ref_from_prefix_with_trailing_elements",
                   ref_from_prefix_with_trailing_elements(arg.bytes, arg.count, arg.T),
                   trailing_elems(arg.bytes.len, LAYOUT(arg.T), Some(arg.count)))

RefFromSuffixWithTrailingElements ==
    /\ arg.T \in DstTypes \cup ZstTypes /\ FromBytes(arg.T)
    /\ CastCounted("ref_from_suffix_with_trailing_elements",
                   ref_from_suffix_with_trailing_elements(arg.bytes, arg.count, arg.T),
                   trailing_elems(arg.bytes.len, LAYOUT(arg.T), Some(arg.count)))

\* `(*r)` for a Ref to an unsized T: the reference deref makes anew from the
\* bytes of the Ref, observed by the number of its trailing elements.
DerefTrailingLen ==
    /\ r.live /\ LAYOUT(r.T).kind = "SliceDst" /\ out.op = "none"
    /\ IF ~assert_dst_is_not_zst(r.T) THEN out' = Out("deref", 0) /\ UNCHANGED panicked
       ELSE IF Recast(r).status = "Ok"
       THEN /\ out' = Out("deref", trailing_elems(r.bytes.len, LAYOUT(r.T), None))
            /\ UNCHANGED panicked
       ELSE out' = Out("deref", 0) /\ panicked' = TRUE
    /\ UNCHANGED <<mem, arg, res, r>>

NextElems ==
    \/ PickElems \/ Drop
    \/ From \/ RefFrom
    \/ FromPrefixWithElems \/ FromSuffixWithElems
    \/ UnalignedFromPrefixWithElems \/ UnalignedFromSuffixWithElems
    \/ RefFromWithTrailingElements
    \/ DerefTrailingLen

SpecElems == InitElems /\ [][NextElems]_vars

(* The constructors for types with no alignment requirement *)

UnalignedFrom ==
    /\ Unaligned(arg.T)
    /\ ConstructUnaligned("unaligned_from", unaligned_from(arg.bytes, arg.T))

UnalignedFromPrefix ==
    /\ Unaligned(arg.T)
    /\ ConstructUnaligned("unaligned_from_prefix", unaligned_from_prefix(arg.bytes, arg.T))

UnalignedFromSuffix ==
    /\ Unaligned(arg.T)
    /\ ConstructUnaligned("unaligned_from_suffix", unaligned_from_suffix(arg.bytes, arg.T))

UnalignedArgs ==
    {a \in [bytes : Slices, T : Types \cup {"slice_arr3"}, count : Counts,
            mutable : {FALSE}] :
        LAYOUT(a.T).kind = "Sized" => a.count = 0}

PickUnaligned ==
    /\ res.op = "none"
    /\ arg = NoArg
    /\ arg' \in UnalignedArgs
    /\ UNCHANGED <<mem, res, r, out, panicked>>

NextUnaligned ==
    \/ PickUnaligned \/ Drop
    \/ UnalignedFrom \/ UnalignedFromPrefix \/ UnalignedFromSuffix
    \/ UnalignedFromPrefixWithElems \/ UnalignedFromSuffixWithElems

SpecUnaligned == Init /\ [][NextUnaligned]_vars

(* Casts of types whose trailing elements are zero-sized *)

ZstCounts == 0..MaxCount \cup {42, UsizeMax}

ZstArgs ==
    [bytes : Slices, T : ZstTypes \cup {"dst212"}, count : ZstCounts, mutable : {FALSE}]

PickZst ==
    /\ res.op = "none"
    /\ arg = NoArg
    /\ arg' \in ZstArgs
    /\ UNCHANGED <<mem, res, r, out, panicked>>

NextZst ==
    \/ PickZst \/ Drop
    \/ From \/ FromPrefix \/ FromSuffix
    \/ RefFrom \/ RefFromPrefix \/ RefFromSuffix
    \/ FromPrefixWithElems \/ FromSuffixWithElems
    \/ RefFromWithTrailingElements
    \/ RefFromPrefixWithTrailingElements \/ RefFromSuffixWithTrailingElements

SpecZst == Init /\ [][NextZst]_vars

(* The copy-out read of one byte, for every value the byte can have *)

InitCopy ==
    /\ mem = [a \in Addrs |-> 0]
    /\ arg = [bytes |-> Slice(0, 1), T |-> "bool", count |-> 0, mutable |-> FALSE]
    /\ res = NoRes
    /\ r = NoRef
    /\ out = NoOut
    /\ panicked = FALSE

\* The caller stores a byte in the one-byte buffer.
Fill ==
    /\ \E b \in Byte : mem' = [mem EXCEPT ![arg.bytes.addr] = b]
    /\ res' = NoRes
    /\ UNCHANGED <<arg, r, out, panicked>>

NextCopy == Fill \/ TryReadFrom

SpecCopy == InitCopy /\ [][NextCopy]_vars

TypeOK ==
    /\ mem \in [Addrs -> ByteVals]
    /\ panicked \in BOOLEAN
    /\ r.live \in BOOLEAN
    /\ res.status \in {"None", "Ok", "Err", "Panic"}

-----------------------------------------------------------------------------
(* What the properties speak of: the call that produced `res` *)

SizedCtorOps == {"sized_from", "sized_from_prefix", "sized_from_suffix"}

CtorOps ==
    SizedCtorOps \cup {"from", "from_prefix", "from_suffix",
                       "from_prefix_with_elems", "from_suffix_with_elems"}

RefCastOps == {"ref_from", "ref_from_prefix", "ref_from_suffix"}

TryCastOps == {"try_ref_from", "try_ref_from_prefix", "try_ref_from_suffix"}

CopyOps == {"read_from", "read_from_prefix", "read_from_suffix", "try_read_from"}

ExactOps == {"sized_from", "from", "ref_from", "try_ref_from", "read_from", "try_read_from"}

PrefixOps ==
    {"sized_from_prefix", "from_prefix", "from_prefix_with_elems", "ref_from_prefix",
     "try_ref_from_prefix", "read_from_prefix"}

SuffixOps ==
    {"sized_from_suffix", "from_suffix", "from_suffix_with_elems", "ref_from_suffix",
     "try_ref_from_suffix", "read_from_suffix"}

WithElemsOps == {"from_prefix_with_elems", "from_suffix_with_elems"}

RoundUp(n, a) == ((n + a - 1) \div a) * a

\* The size of a T with n trailing elements.
SizeWithElems(T, n) ==
    RoundUp(LAYOUT(T).offset + LAYOUT(T).elem_size * n, LAYOUT(T).align)

\* The sizes of T that fit in len bytes.
FittingSizes(T, len) == {SizeWithElems(T, n) : n \in 0..len} \cap 0..len

\* The set holding the size the call needs, empty if no size will do.
Needed ==
    IF arg.T \in SizedTypes THEN {size_of(arg.T)}
    ELSE IF res.op \in WithElemsOps
         THEN {SizeWithElems(arg.T, arg.count)} \cap 0..UsizeMax
    ELSE {n \in FittingSizes(arg.T, arg.bytes.len) :
             \A k \in FittingSizes(arg.T, arg.bytes.len) : k <= n}

\* The buffer is too short for the call.
TooShort == \A n \in Needed : arg.bytes.len < n

\* The buffer has the size the call asks for.
SizeFits ==
    \E n \in Needed : IF res.op \in ExactOps THEN arg.bytes.len = n
                                              ELSE arg.bytes.len >= n

\* The address of the bytes the call would cast, when the size fits.
CandidateAddr ==
    IF res.op \in SuffixOps
    THEN arg.bytes.addr + arg.bytes.len - (CHOOSE n \in Needed : TRUE)
    ELSE arg.bytes.addr

Disjoint(a, b) == a.addr + a.len <= b.addr \/ b.addr + b.len <= a.addr

-----------------------------------------------------------------------------
(* Properties *)

\* C1: a constructor of Ref given a buffer that is both too short and
\* misaligned fails with a Size error, never with an Alignment error.
C1_SizeBeforeAlignment ==
    (/\ res.op \in CtorOps
     /\ TooShort
     /\ arg.bytes.addr % align_of(arg.T) # 0)
    => (res.status = "Err" /\ res.err = "Size")

C1_Witness ==
    /\ res.op = "sized_from_prefix"
    /\ TooShort
    /\ arg.bytes.addr % align_of(arg.T) # 0
    /\ res.err = "Size"

\* C2 as stated: whatever the cast mode, a buffer whose start address is not
\* a multiple of the alignment a > 1 and whose length suffices yields an
\* Alignment error.
C2_BufferAddressDecides ==
    (/\ res.op \in CtorOps \cup RefCastOps \cup TryCastOps
     /\ align_of(arg.T) > 1
     /\ SizeFits
     /\ arg.bytes.addr % align_of(arg.T) # 0)
    => (res.status = "Err" /\ res.err = "Alignment")

\* C2 amended: when the length suffices and the address of the bytes to be
\* cast (the buffer's start in Exact and Prefix mode, the start of the last
\* `size` bytes in Suffix mode) is not a multiple of the alignment a > 1, the
\* cast yields an Alignment error, never a Validity error or success.
C2_AlignmentPrecedence ==
    (/\ res.op \in CtorOps \cup RefCastOps \cup TryCastOps
     /\ align_of(arg.T) > 1
     /\ SizeFits
     /\ CandidateAddr % align_of(arg.T) # 0)
    => (res.status = "Err" /\ res.err = "Alignment")

C2_Witness ==
    /\ res.op = "sized_from_suffix"
    /\ align_of(arg.T) > 1
    /\ SizeFits
    /\ arg.bytes.addr % align_of(arg.T) = 0
    /\ CandidateAddr % align_of(arg.T) # 0
    /\ res.err = "Alignment"

\* C3: a successful Prefix cast of a buffer [addr, addr+L) matches
\* [addr, addr+S) and leaves [addr+S, addr+L); a successful Suffix cast
\* matches [addr+L-S, addr+L) and leaves [addr, addr+L-S); match and
\* remainder do not overlap and cover the buffer; and when L > S the prefix
\* match and the suffix match of the same buffer differ (they are disjoint
\* when L >= 2*S).
C3_PrefixSuffixComplement ==
    (res.op \in (CtorOps \cap (PrefixOps \cup SuffixOps)) /\ res.status = "Ok")
    => \E S \in Needed :
          LET addr == arg.bytes.addr
              L == arg.bytes.len
          IN  /\ res.op \in PrefixOps =>
                    res.ref = Slice(addr, S) /\ res.rest = Slice(addr + S, L - S)
              /\ res.op \in SuffixOps =>
                    res.ref = Slice(addr + L - S, S) /\ res.rest = Slice(addr, L - S)
              /\ Disjoint(res.ref, res.rest)
              /\ res.ref.len + res.rest.len = L
              /\ (res.op = "from_prefix" /\ L > S
                    /\ from_suffix(arg.bytes, arg.T).status = "Ok") =>
                    /\ from_suffix(arg.bytes, arg.T).ref # res.ref
                    /\ L >= 2 * S => Disjoint(from_suffix(arg.bytes, arg.T).ref, res.ref)
              /\ (res.op = "from_suffix" /\ L > S
                    /\ from_prefix(arg.bytes, arg.T).status = "Ok") =>
                    /\ from_prefix(arg.bytes, arg.T).ref # res.ref
                    /\ L >= 2 * S => Disjoint(from_prefix(arg.bytes, arg.T).ref, res.ref)

C3_Witness ==
    /\ res.op = "from_suffix"
    /\ res.status = "Ok"
    /\ arg.T = "u16"
    /\ arg.bytes = Slice(0, 4)
    /\ res.ref = Slice(2, 2)
    /\ from_prefix(arg.bytes, arg.T).ref = Slice(0, 2)

C5_ErrorCarriesWholeBuffer ==
    (res.op \in CtorOps /\ res.status = "Err") => res.src = arg.bytes

\* C6: a live Ref's bytes are those validated at construction, at an address
\* aligned for T and of a length that is a valid size of T, whatever was
\* called on it since; and the re-cast of deref, deref_mut, into_ref and
\* into_mut has never failed.
C6_TypedViewInvariant ==
    /\ ~panicked
    /\ r.live =>
          /\ res.op \in CtorOps /\ res.status = "Ok"
          /\ r.bytes = res.ref
          /\ r.T = arg.T
          /\ r.bytes.addr % align_of(r.T) = 0
          /\ IF r.T \in SizedTypes
             THEN r.bytes.len = size_of(r.T)
             ELSE \E n \in 0..r.bytes.len : r.bytes.len = SizeWithElems(r.T, n)
          /\ FromBytes(r.T) => Recast(r).status = "Ok" /\ Recast(r).ref = r.bytes

C6_Witness ==
    /\ r.live
    /\ res.op = "from_suffix"
    /\ r.T = "slice_u16"
    /\ r.bytes = Slice(2, 2)
    /\ out.op = "deref_mut_elem"
    /\ ~panicked

\* C7: on a Ref of a type that is both FromBytes and IntoBytes, after
\* write(v) the bytes are the representation of v and a read gives v; the
\* read() that follows write(v) returned v.
C7_WriteReadRoundTrip ==
    (r.live /\ r.T \in SizedTypes /\ FromBytes(r.T) /\ IntoBytes(r.T)) =>
        /\ out.op = "write" =>
              /\ SliceBytes(mem, r.bytes) = ValueBytes(r.T, out.val)
              /\ ReadVal(mem, r.bytes, r.T) = out.val
        /\ (out.op = "read" /\ out.wrote.some) => out.val = out.wrote.v

C7_Witness ==
    /\ r.live
    /\ r.T = "u16"
    /\ out.op = "read"
    /\ out.wrote = Some(514)
    /\ out.val = 514
    /\ SliceBytes(mem, r.bytes) = <<2, 2>>

\* C8: what deref_mut or write stored is what bytes() shows; the byte that
\* bytes_mut stored is in the value read() and deref give; and read() and
\* *deref() are the same value whenever both can be called.
C8_ViewsCoherent ==
    r.live =>
        /\ out.op \in {"write", "deref_mut"} =>
              SliceBytes(mem, r.bytes) = ValueBytes(r.T, out.val)
        /\ out.op = "deref_mut_elem" =>
              SubSeq(SliceBytes(mem, r.bytes),
                     out.val[1] * size_of(ElemType(r.T)) + 1,
                     (out.val[1] + 1) * size_of(ElemType(r.T)))
                 = ValueBytes(ElemType(r.T), out.val[2])
        /\ (out.op = "bytes_mut" /\ FromBytes(r.T)) =>
              /\ SliceBytes(mem, r.bytes)[out.val[1] + 1] = out.val[2]
              /\ Recast(r).status = "Ok"
              /\ ValueBytes(r.T, DerefVal(mem, r))[out.val[1] + 1] = out.val[2]
              /\ r.T \in SizedTypes =>
                    ValueBytes(r.T, ReadVal(mem, r.bytes, r.T))[out.val[1] + 1]
                       = out.val[2]
        /\ (r.T \in SizedTypes /\ FromBytes(r.T)) =>
              /\ Recast(r).status = "Ok"
              /\ ReadVal(mem, r.bytes, r.T) = DerefVal(mem, r)
              /\ out.op \in {"read", "deref"} => out.val = DerefVal(mem, r)

C8_Witness ==
    /\ r.live
    /\ r.T = "u16"
    /\ out.op = "bytes_mut"
    /\ out.val = <<1, 2>>
    /\ ReadVal(mem, r.bytes, r.T) = 512
    /\ DerefVal(mem, r) = 512

\* C9: bool::try_read_from of the one byte b is Ok(false) for b = 0,
\* Ok(true) for b = 1 and a Validity error for every b in 2..255.
C9_BoolValidity ==
    (res.op = "try_read_from" /\ arg.T = "bool" /\ Len(res.data) = 1) =>
        LET b == res.data[1] IN
        /\ b = mem[arg.bytes.addr]
        /\ b = 0 => res.status = "Ok" /\ res.val = FALSE
        /\ b = 1 => res.status = "Ok" /\ res.val = TRUE
        /\ b \in 2..255 => res.status = "Err" /\ res.err = "Validity"

C9_Witness ==
    /\ res.op = "try_read_from"
    /\ arg.T = "bool"
    /\ res.data = <<255>>
    /\ res.err = "Validity"

\* C10: try_ref_from, try_mut_from and their prefix and suffix variants give
\* a Validity error only to bytes of a fitting size at an aligned address; a
\* wrong size gives a Size error and a misaligned match an Alignment error
\* even when the bytes are no valid T; and a reference is returned only to
\* bytes that are bit-valid.
C10_ValidityLast ==
    res.op \in TryCastOps =>
        /\ (res.status = "Err" /\ res.err = "Validity") =>
              SizeFits /\ CandidateAddr % align_of(arg.T) = 0
        /\ ~SizeFits => res.status = "Err" /\ res.err = "Size"
        /\ (SizeFits /\ CandidateAddr % align_of(arg.T) # 0) =>
              res.status = "Err" /\ res.err = "Alignment"
        /\ res.status = "Ok" => is_bit_valid(arg.T, SliceBytes(mem, res.ref))

C10_Witness ==
    /\ res.op = "try_ref_from"
    /\ arg.T = "NonZeroU16"
    /\ arg.bytes = Slice(1, 2)
    /\ ~is_bit_valid(arg.T, SliceBytes(mem, arg.bytes))
    /\ res.err = "Alignment"

\* C11: read_from, read_from_prefix, read_from_suffix and try_read_from
\* never give an Alignment error nor reach their unreachable!() arm, whatever
\* the type's alignment and the buffer's address; on a buffer of a fitting
\* size they give what they give for the same bytes at address 0.
C11_CopyReadsIgnoreAlignment ==
    res.op \in CopyOps =>
        /\ res.status # "Panic"
        /\ res.err # "Alignment"
        /\ res.data = SliceBytes(mem, arg.bytes)
        /\ SizeFits =>
              /\ res.op = "read_from" =>
                    res.status = "Ok" /\ res.val = read_from(0, res.data, arg.T).val
              /\ res.op = "read_from_prefix" =>
                    res.status = "Ok" /\ res.val = read_from_prefix(0, res.data, arg.T).val
              /\ res.op = "read_from_suffix" =>
                    res.status = "Ok" /\ res.val = read_from_suffix(0, res.data, arg.T).val
              /\ res.op = "try_read_from" =>
                    /\ res.status = try_read_from(0, res.data, arg.T).status
                    /\ res.err = try_read_from(0, res.data, arg.T).err
                    /\ res.val = try_read_from(0, res.data, arg.T).val
                    /\ res.status = "Ok" <=> is_bit_valid(arg.T, res.data)

C11_Witness ==
    /\ res.op = "read_from"
    /\ arg.T = "u16"
    /\ arg.bytes = Slice(1, 2)
    /\ res.data = <<2, 2>>
    /\ res.status = "Ok"
    /\ res.val = 514

\* C12: for a count n and a layout SliceDst(offset, elem_size, align),
\* size_for_metadata is Some(round_up(offset + elem_size * n, align)), a
\* multiple of align no smaller than offset + elem_size * n, whenever that
\* fits in a usize; it is None exactly when the product, the sum or the sum
\* with the trailing padding exceeds the largest usize.
C12_SizeForMetadata ==
    (res.op = "size_for_metadata" /\ arg.layout.kind = "SliceDst") =>
        LET unpadded == arg.layout.offset + arg.layout.elem_size * arg.count
            exact == RoundUp(unpadded, arg.layout.align)
        IN  /\ exact <= UsizeMax =>
                  /\ res.val = Some(exact)
                  /\ res.val.v % arg.layout.align = 0
                  /\ res.val.v >= unpadded
                  /\ res.val.v < unpadded + arg.layout.align
            /\ res.val = None <=>
                  \/ arg.layout.elem_size * arg.count > UsizeMax
                  \/ unpadded > UsizeMax
                  \/ exact > UsizeMax

C12_Witness ==
    /\ res.op = "size_for_metadata"
    /\ arg.layout = SliceDst(3, 4, 8)
    /\ arg.count = 15
    /\ res.val = None

\* C13: with an explicit count n the required size is
\* S = round_up(offset + elem_size * n, align); a Prefix or Suffix cast fails
\* its size check exactly when S exceeds the buffer's length and an Exact
\* cast exactly when S differs from it, and a successful cast matches S
\* bytes.  For offset 2, elem_size 1, align 2 and an aligned buffer of 10
\* bytes, count 8 succeeds with 10 bytes and count 9 fails with a Size error.
C13_CountedCastExact ==
    (/\ res.op \in {"from_prefix_with_elems", "from_suffix_with_elems",
                    "ref_from_with_trailing_elements"}
     /\ SizeWithElems(arg.T, arg.count) <= UsizeMax)
    => LET S == SizeWithElems(arg.T, arg.count)
           L == arg.bytes.len
       IN  /\ (res.status = "Err" /\ res.err = "Size") <=>
                  IF res.op = "ref_from_with_trailing_elements" THEN S # L ELSE S > L
           /\ res.status = "Ok" => res.ref.len = S
           /\ (arg.T = "dst212" /\ arg.bytes = Slice(0, 10) /\ arg.count = 8) =>
                  res.status = "Ok" /\ res.ref = Slice(0, 10)
           /\ (arg.T = "dst212" /\ arg.bytes = Slice(0, 10) /\ arg.count = 9) =>
                  res.status = "Err" /\ res.err = "Size"

C13_Witness ==
    /\ res.op = "from_prefix_with_elems"
    /\ arg.T = "dst212"
    /\ arg.bytes = Slice(0, 10)
    /\ arg.count = 8
    /\ res.status = "Ok"
    /\ res.ref.len = 10

\* C14: when elem_size * n, or the sum with the offset, or the sum with the
\* trailing padding exceeds the largest usize, from_prefix_with_elems,
\* from_suffix_with_elems and their unaligned_ variants return a Size error:
\* they do not panic and construct no Ref.
C14_OverflowIsSizeError ==
    (/\ res.op \in {"from_prefix_with_elems", "from_suffix_with_elems",
                    "unaligned_from_prefix_with_elems",
                    "unaligned_from_suffix_with_elems"}
     /\ SizeWithElems(arg.T, arg.count) > UsizeMax)
    => /\ res.status = "Err"
       /\ res.err = "Size"
       /\ res.src = arg.bytes
       /\ ~r.live
       /\ ~panicked

C14_Witness ==
    /\ res.op = "unaligned_from_suffix_with_elems"
    /\ arg.T = "slice_arr3"
    /\ arg.count = UsizeMax \div 2 + 1
    /\ arg.bytes = Slice(0, BigSize)
    /\ res.err = "Size"

\* C15: extend of a Sized base by a field, with an optional packing cap,
\* gives alignment max(base.align, field_align), where field_align is the
\* field's alignment capped at the packing, and places the field at the
\* least offset >= base.size that is a multiple of field_align; a Sized
\* field gives a Sized layout of size offset + field.size, a SliceDst field
\* {fo, elem_size} gives SliceDst {offset + fo, elem_size}.  A zero-sized
\* base extended by a zero-sized field has size 0.
C15_ExtendSizedBase ==
    (res.op = "extend" /\ arg.base.kind = "Sized") =>
        LET field_align == IF arg.packed.some /\ arg.packed.v < arg.field.align
                           THEN arg.packed.v ELSE arg.field.align
            align == IF arg.base.align > field_align THEN arg.base.align
                                                     ELSE field_align
            offset == CHOOSE n \in arg.base.size..(arg.base.size + field_align - 1) :
                         n % field_align = 0
        IN  /\ res.status = "Ok"
            /\ ~panicked
            /\ res.val.align = align
            /\ arg.field.kind = "Sized" =>
                  res.val = Sized(offset + arg.field.size, align)
            /\ arg.field.kind = "SliceDst" =>
                  res.val = SliceDst(offset + arg.field.offset, arg.field.elem_size, align)
            /\ (arg.base.size = 0 /\ arg.field.kind = "Sized" /\ arg.field.size = 0) =>
                  /\ res.val.kind = "Sized" /\ res.val.size = 0
                  /\ ~arg.packed.some =>
                        res.val.align = IF arg.base.align > arg.field.align
                                        THEN arg.base.align ELSE arg.field.align

C15_Witness ==
    /\ res.op = "extend"
    /\ arg.base = Sized(3, 2)
    /\ arg.field = SliceDst(1, 2, 4)
    /\ arg.packed = Some(2)
    /\ res.val = SliceDst(5, 2, 2)

\* C16: extend of a base that is SliceDst panics, whatever the field and
\* the packing, and returns no layout.
C16_ExtendDstBasePanics ==
    (res.op = "extend" /\ arg.base.kind = "SliceDst") =>
        res.status = "Panic" /\ panicked

C16_Witness ==
    /\ res.op = "extend"
    /\ arg.base = SliceDst(0, 1, 1)
    /\ arg.field = Sized(1, 1)
    /\ arg.packed = None
    /\ res.status = "Panic"
    /\ panicked

\* C17: pad_to_align keeps the alignment; a Sized layout stays Sized, with
\* its size raised to the least multiple of the alignment that is no
\* smaller; a SliceDst layout is returned as it is.
C17_PadToAlign ==
    res.op = "pad_to_align" =>
        /\ res.val.align = arg.base.align
        /\ arg.base.kind = "Sized" =>
              /\ res.val.kind = "Sized"
              /\ res.val.size = RoundUp(arg.base.size, arg.base.align)
              /\ res.val.size % arg.base.align = 0
              /\ res.val.size >= arg.base.size
              /\ res.val.size < arg.base.size + arg.base.align
        /\ arg.base.kind = "SliceDst" => res.val = arg.base

C17_Witness ==
    /\ res.op = "pad_to_align"
    /\ arg.base = Sized(3, 2)
    /\ res.val = Sized(4, 2)

-----------------------------------------------------------------------------
(* The repr(C) layout rule, stated without extend and pad_to_align *)

\* The alignment a field is placed at under the packing cap.
FieldAlign(field, packed) ==
    IF packed.some /\ packed.v < field.align THEN packed.v ELSE field.align

\* The offset of field i, the fields before it being Sized: the end of the
\* field before it, raised to the least multiple of field i's alignment.
RECURSIVE FieldOffset(_, _, _)
FieldOffset(fields, packed, i) ==
    LET before == IF i = 1 THEN 0
                  ELSE FieldOffset(fields, packed, i - 1) + fields[i - 1].size
    IN  RoundUp(before, FieldAlign(fields[i], packed))

\* The greatest of the fields' placed alignments, 1 with no fields.
FieldsAlign(fields, packed) ==
    LET as == {1} \cup {FieldAlign(fields[i], packed) : i \in 1..Len(fields)}
    IN  CHOOSE a \in as : \A b \in as : b <= a

\* The layout of the aggregate: its alignment, and either its size (rounded
\* up to the alignment once the aggregate is complete) or the offset and
\* element size of its trailing slice.
AggregateLayout(fields, repr_align, packed, complete) ==
    LET n == Len(fields)
        computed == FieldsAlign(fields, packed)
        align == IF repr_align.some /\ repr_align.v > computed
                 THEN repr_align.v ELSE computed
    IN  IF n = 0 THEN Sized(0, align)
        ELSE IF fields[n].kind = "Sized"
        THEN LET end == FieldOffset(fields, packed, n) + fields[n].size
             IN  Sized(IF complete THEN RoundUp(end, align) ELSE end, align)
        ELSE SliceDst(FieldOffset(fields, packed, n) + fields[n].offset,
                      fields[n].elem_size, align)

\* The composition ran without a panic: every field but the last is Sized.
Composed == arg.started /\ ~panicked

\* C18: the layout obtained from the zero-sized start by extending with the
\* fields in declaration order under the packing cap, and then by
\* pad_to_align, is the layout of the C-style aggregate with these fields.
\* Fields (u16, u8) with no cap give size 2 align 2, then size 3 align 2,
\* then size 4 once padded; fields (align 8 size 8, u8) give align 8 size
\* 16 with no cap, align 1 size 9 with cap 1 and align 2 size 10 with cap 2.
C18_CompositeAdditivity ==
    Composed =>
        /\ arg.layout =
              AggregateLayout(arg.fields, arg.repr_align, arg.packed, arg.padded)
        /\ (arg.repr_align = None /\ arg.packed = None) =>
              /\ (arg.fields = <<AU16>> /\ ~arg.padded) => arg.layout = Sized(2, 2)
              /\ (arg.fields = <<AU16, Sized(1, 1)>> /\ ~arg.padded) =>
                    arg.layout = Sized(3, 2)
              /\ (arg.fields = <<AU16, Sized(1, 1)>> /\ arg.padded) =>
                    arg.layout = Sized(4, 2)
              /\ (arg.fields = <<AU64, Sized(1, 1)>> /\ arg.padded) =>
                    arg.layout = Sized(16, 8)
              /\ (arg.fields = <<AU32, SliceDst(0, 1, 1)>> /\ arg.padded) =>
                    arg.layout = SliceDst(4, 1, 4)
              /\ (arg.fields = <<Sized(1, 1), AU16, SliceDst(0, 1, 1)>> /\ arg.padded) =>
                    arg.layout = SliceDst(4, 1, 2)
        /\ (arg.fields = <<AU64, Sized(1, 1)>> /\ arg.padded /\ arg.repr_align = None) =>
              /\ arg.packed = Some(1) => arg.layout = Sized(9, 1)
              /\ arg.packed = Some(2) => arg.layout = Sized(10, 2)

C18_Witness ==
    /\ Composed
    /\ arg.fields = <<AU64, Sized(1, 1)>>
    /\ arg.packed = Some(2)
    /\ arg.padded
    /\ arg.layout = Sized(10, 2)

\* The chain new_zst(repr_align).extend(fields[1], packed)...extend(fields[n],
\* packed), the fields before the last being Sized.
RECURSIVE LayoutOf(_, _, _, _)
LayoutOf(fields, repr_align, packed, n) ==
    IF n = 0 THEN new_zst(repr_align)
    ELSE extend(LayoutOf(fields, repr_align, packed, n - 1), fields[n], packed).layout

\* C19: an explicit minimum alignment only raises the alignment of the
\* composite: the alignment is the greater of the minimum and the alignment
\* the same fields give without it; the kind, the trailing slice's offset and
\* element size, and the size before padding are those obtained without it,
\* and the padded size is the size without it rounded up to the alignment.
\* Fields (align 4 size 4, [u8]) with minimum 64 give SliceDst align 64,
\* elem_size 1, offset 4; fields of total size 9 with minimum 64 pad to 64.
C19_ReprAlignIsFloor ==
    (Composed /\ arg.repr_align.some) =>
        LET without == LayoutOf(arg.fields, None, arg.packed, Len(arg.fields))
            with == arg.layout
        IN  /\ with.align = max(arg.repr_align.v, without.align)
            /\ with.align >= without.align
            /\ with.align >= arg.repr_align.v
            /\ with.kind = without.kind
            /\ with.kind = "SliceDst" =>
                  /\ with.offset = without.offset
                  /\ with.elem_size = without.elem_size
            /\ (with.kind = "Sized" /\ ~arg.padded) => with.size = without.size
            /\ (with.kind = "Sized" /\ arg.padded) =>
                  with.size = RoundUp(without.size, with.align)
            /\ (arg.repr_align = Some(64) /\ arg.fields = <<AU32, SliceDst(0, 1, 1)>>) =>
                  with = SliceDst(4, 1, 64)
            /\ (arg.repr_align = Some(64) /\ arg.fields = <<AU64, Sized(1, 1)>>) =>
                  /\ without = Sized(9, 8)
                  /\ with = IF arg.padded THEN Sized(64, 64) ELSE Sized(9, 64)

C19_Witness ==
    /\ Composed
    /\ arg.repr_align = Some(64)
    /\ arg.fields = <<AU64, Sized(1, 1)>>
    /\ arg.padded
    /\ arg.layout = Sized(64, 64)

IsPowerOfTwo(a) == \E k \in 0..(MaxReprAlignExp + MaxAlignExp) : a = 2 ^ k

\* The invariant of a layout: a power-of-two alignment and, for a Sized
\* layout, a size that is a multiple of it.
Padded(layout) ==
    /\ IsPowerOfTwo(layout.align)
    /\ layout.kind = "Sized" => layout.size % layout.align = 0

\* The layouts the composition starts from: for_type and for_slice of the
\* types of the model, and the fields given so far.
GivenLayouts ==
    {for_type(T) : T \in SizedTypes} \cup {for_slice(T) : T \in SizedTypes}
        \cup {arg.fields[i] : i \in 1..Len(arg.fields)}

\* C20 as stated: every layout produced (the zero-sized start, for_type,
\* for_slice, every result of extend and of pad_to_align) has a power-of-two
\* alignment and, when Sized, a size that is a multiple of its alignment.
C20_EveryLayoutPadded ==
    arg.started =>
        /\ \A layout \in GivenLayouts : Padded(layout)
        /\ ~panicked => Padded(arg.layout)

\* C20: every layout produced has an alignment that is a power of two >= 1.
\* The zero-sized start, the layouts of for_type and every Sized result of
\* pad_to_align have a size that is a multiple of the alignment; a Sized
\* result of extend has the size offset + field.size, which is a multiple of
\* the alignment only once pad_to_align has been applied.
C20_LayoutInvariant ==
    arg.started =>
        /\ \A layout \in GivenLayouts : Padded(layout)
        /\ ~panicked =>
              /\ IsPowerOfTwo(arg.layout.align)
              /\ arg.layout.align >= 1
              /\ (arg.padded \/ arg.fields = <<>>) => Padded(arg.layout)
              /\ (arg.layout.kind = "Sized" /\ ~arg.padded) =>
                    Padded(pad_to_align(arg.layout))

C20_Witness ==
    /\ Composed
    /\ arg.fields = <<AU16, Sized(1, 1)>>
    /\ arg.padded
    /\ arg.layout = Sized(4, 2)

SplitOps == {"split_at", "try_split_at"}

\* C22: for a slice at addr of length len and mid <= len, split_at and
\* try_split_at return a first half at addr of length mid and a second half
\* at addr + mid of length len - mid, which together hold the bytes the slice
\* held; for mid > len try_split_at returns Err with the slice it was given
\* and split_at panics.
C22_SplitContract ==
    res.op \in SplitOps =>
        /\ arg.mid <= arg.bytes.len =>
              /\ res.status = "Ok"
              /\ ~panicked
              /\ res.ref = Slice(arg.bytes.addr, arg.mid)
              /\ res.rest = Slice(arg.bytes.addr + arg.mid, arg.bytes.len - arg.mid)
              /\ SliceBytes(mem, res.ref) \o SliceBytes(mem, res.rest) = res.data
              /\ SliceBytes(mem, arg.bytes) = res.data
        /\ (arg.mid > arg.bytes.len /\ res.op = "try_split_at") =>
              /\ res.status = "Err"
              /\ ~panicked
              /\ res.src = arg.bytes
              /\ SliceBytes(mem, res.src) = res.data
        /\ (arg.mid > arg.bytes.len /\ res.op = "split_at") =>
              /\ res.status = "Panic"
              /\ panicked

C22_Witness ==
    /\ res.op = "split_at"
    /\ arg.bytes = Slice(1, 3)
    /\ arg.mid = 1
    /\ res.ref = Slice(1, 1)
    /\ res.rest = Slice(2, 2)
    /\ res.data = <<2, 0, 2>>

WriteToOps == {"write_to", "write_to_prefix", "write_to_suffix"}

\* The memory differs from what it was before the call at most in `region`,
\* which now holds `bytes`.
OnlyWritten(region, bytes) ==
    /\ SliceBytes(mem, region) = bytes
    /\ region.len = Len(bytes)
    /\ \A a \in Addrs :
          (a < region.addr \/ a >= region.addr + region.len) => mem[a] = res.data[a]

\* C23: write_to fails exactly when the target's length differs from the
\* size of the value, write_to_prefix and write_to_suffix exactly when the
\* target is shorter; a failed write leaves every byte as it was.  On
\* success write_to changes only the target, write_to_prefix only the first
\* size bytes of the target and write_to_suffix only its last size bytes;
\* the changed region holds as_bytes() and every other byte, inside the
\* target or outside it, is as it was.
C23_WriteToFrame ==
    res.op \in WriteToOps =>
        LET size == size_of(arg.T)
            addr == arg.bytes.addr
            len == arg.bytes.len
        IN  /\ res.status \in {"Ok", "Err"}
            /\ ~panicked
            /\ res.op = "write_to" => (res.status = "Err" <=> len # size)
            /\ res.op # "write_to" => (res.status = "Err" <=> len < size)
            /\ res.status = "Err" => (res.err = "Size" /\ mem = res.data)
            /\ (res.status = "Ok" /\ res.op \in {"write_to", "write_to_prefix"}) =>
                  OnlyWritten(Slice(addr, size), as_bytes(arg.T, arg.t))
            /\ (res.status = "Ok" /\ res.op = "write_to_suffix") =>
                  OnlyWritten(Slice(addr + len - size, size), as_bytes(arg.T, arg.t))

C23_Witness ==
    /\ res.op = "write_to_suffix"
    /\ res.status = "Ok"
    /\ arg.bytes = Slice(1, 3)
    /\ arg.T = "u16"
    /\ arg.t = 2
    /\ res.data = [a \in Addrs |-> 2]
    /\ mem = [a \in Addrs |-> IF a = 3 THEN 0 ELSE 2]

MutatingOps == {"write", "bytes_mut", "deref_mut", "deref_mut_elem", "into_mut"}

\* C24: no step taken while the Ref is over a shared buffer changes a byte of
\* the memory or is one of write, bytes_mut, deref_mut and into_mut: these
\* are steps of a Ref over a mutable buffer only.
C24_SharedNeverMutates ==
    [][(r.live /\ ~r.mutable) =>
          /\ mem' = mem
          /\ out'.op \notin MutatingOps]_<<mem, r, out.op>>

\* A Ref over a shared buffer shows bytes that an earlier, mutable Ref stored.
C24_Witness ==
    /\ r.live
    /\ ~r.mutable
    /\ r.T = "u16"
    /\ out.op = "bytes"
    /\ out.val = <<2, 2>>

\* C25: a validity check of a type that is not Immutable is only ever run
\* on an exclusively aliased candidate, and no call ends in the fatal
\* refusal; the shared casts try_ref_from, try_ref_from_prefix and
\* try_ref_from_suffix are called for Immutable types only; try_read_from
\* checks its local copy through exclusive access, for a cell-bearing type
\* as for any other, and accepts exactly the valid bytes.
C25_CellValidityExclusive ==
    res.op # "none" =>
        /\ ~panicked
        /\ res.status # "Panic"
        /\ (res.checked /\ ~Immutable(arg.T)) => res.aliasing = "Exclusive"
        /\ res.op = "try_ref_from" => Immutable(arg.T)
        /\ (res.op = "try_ref_from" /\ res.checked) => res.aliasing = "Shared"
        /\ (res.op = "try_read_from" /\ arg.bytes.len = 1) =>
              /\ res.checked
              /\ res.aliasing = "Exclusive"
              /\ res.status = "Ok" <=>
                    is_bit_valid(CellInner(arg.T), SliceBytes(mem, arg.bytes))

C25_Witness ==
    /\ res.op = "try_read_from"
    /\ arg.T = "cell_bool"
    /\ SliceBytes(mem, arg.bytes) = <<2>>
    /\ res.checked
    /\ res.aliasing = "Exclusive"
    /\ res.status = "Err"
    /\ res.err = "Validity"

\* C26: when the length suffices, a cast fails with an Alignment error
\* exactly when the address of the bytes it would match is not a multiple of
\* the type's alignment: for from_suffix, sized_from_suffix and
\* ref_from_suffix that address is addr + L - S, the start of the last S
\* bytes, and for the Prefix and Exact casts it is addr, the start of the
\* buffer.  An aligned buffer of odd length fails a Suffix cast to a type of
\* alignment 2.
C26_SuffixAlignment ==
    (res.op \in CtorOps \cup RefCastOps /\ SizeFits) =>
        LET S == CHOOSE n \in Needed : TRUE
            fails == res.status = "Err" /\ res.err = "Alignment"
        IN  /\ res.op \in SuffixOps =>
                  (fails <=> (arg.bytes.addr + arg.bytes.len - S) % align_of(arg.T) # 0)
            /\ res.op \in PrefixOps \cup ExactOps =>
                  (fails <=> arg.bytes.addr % align_of(arg.T) # 0)
            /\ ~fails => res.status = "Ok"

C26_Witness ==
    /\ res.op = "from_suffix"
    /\ arg.T = "u16"
    /\ arg.bytes = Slice(0, 3)
    /\ res.status = "Err"
    /\ res.err = "Alignment"

\* [u8], [u16] and [[u8; 3]].
SliceTypes == {"slice_u8", "slice_u16", "slice_arr3"}

\* C27: Ref::from and ref_from of a whole buffer to a slice type [T] succeed
\* exactly when the buffer's address is a multiple of T's alignment and its
\* length a multiple of T's size; the view then is the buffer itself, at
\* its address and of its length, and derefs to len / size_of(T) elements; a
\* length that is not a multiple of the element size gives a Size error.
C27_SliceCastWholeBuffer ==
    (res.op \in {"from", "ref_from"} /\ arg.T \in SliceTypes) =>
        LET elem_size == LAYOUT(arg.T).elem_size
            fits == arg.bytes.len % elem_size = 0
            aligned == arg.bytes.addr % align_of(arg.T) = 0
        IN  /\ res.status = "Ok" <=> (fits /\ aligned)
            /\ ~fits => (res.status = "Err" /\ res.err = "Size")
            /\ res.status = "Ok" =>
                  /\ res.ref = arg.bytes
                  /\ res.ref.len = (arg.bytes.len \div elem_size) * elem_size
                  /\ res.op = "from" =>
                        /\ r.live /\ r.bytes = arg.bytes
                        /\ Recast(r).status = "Ok"
                        /\ Recast(r).ref = arg.bytes
                        /\ Len(DerefVal(mem, r)) \div elem_size
                              = arg.bytes.len \div elem_size

C27_Witness ==
    /\ res.op = "from"
    /\ arg.T = "slice_arr3"
    /\ arg.bytes = Slice(1, 9)
    /\ res.status = "Ok"
    /\ r.live
    /\ Len(DerefVal(mem, r)) = 9

-----------------------------------------------------------------------------
(* Types whose trailing elements are zero-sized *)

CountlessOps ==
    {"from", "from_prefix", "from_suffix", "ref_from", "ref_from_prefix", "ref_from_suffix"}

RefCountedOps == {"from_prefix_with_elems", "from_suffix_with_elems"}

TrailingElementsOps ==
    {"ref_from_with_trailing_elements", "ref_from_prefix_with_trailing_elements",
     "ref_from_suffix_with_trailing_elements"}

\* C28 as stated: every operation that is given an explicit count supports a
\* type whose trailing elements are zero-sized, the counted constructors of
\* Ref included.
C28_EveryCountedOpSupportsZst ==
    (res.op \in RefCountedOps \cup TrailingElementsOps /\ arg.T \in ZstTypes)
        => res.status # "Rejected"

\* C28 (amended): a type whose trailing elements are zero-sized is rejected by
\* the count-less operations and by the counted constructors of Ref, before
\* any size or alignment decision; the *_with_trailing_elements casts support
\* it: the cast of exactly `offset` aligned bytes succeeds for every count,
\* and the referent has exactly that many trailing elements.
C28_ZstTrailingElements ==
    /\ (res.op \in CountlessOps \cup RefCountedOps /\ arg.T \in ZstTypes)
          => /\ res.status = "Rejected"
             /\ res.err \notin {"Size", "Alignment"}
             /\ ~r.live
    /\ (res.op \in TrailingElementsOps /\ arg.T \in ZstTypes)
          => /\ res.status \in {"Ok", "Err"}
             /\ res.status = "Ok" => (res.val = arg.count /\ res.ref.len = LAYOUT(arg.T).offset)
    /\ (res.op = "ref_from_with_trailing_elements" /\ arg.T \in ZstTypes)
          => (res.status = "Ok"
                <=> /\ arg.bytes.len = LAYOUT(arg.T).offset
                    /\ aligned_to(arg.bytes.addr, align_of(arg.T)))

C28_Witness ==
    /\ res.op = "ref_from_with_trailing_elements"
    /\ arg.T = "zsty" /\ arg.bytes.len = 2 /\ arg.count = 42
    /\ res.status = "Ok" /\ res.val = 42

-----------------------------------------------------------------------------
(* What a Ref made with an element count dereferences to *)

\* C29 as stated: when from_prefix_with_elems or from_suffix_with_elems
\* succeeds, the matched region has length size_for_metadata(count), the
\* remainder has the rest of the buffer, and the Ref dereferences to a T with
\* exactly `count` trailing elements.
C29_WithElemsYieldsCount ==
    (res.op \in RefCountedOps /\ res.status = "Ok")
        => /\ res.ref.len = size_for_metadata(arg.count, LAYOUT(arg.T)).v
           /\ res.rest.len = arg.bytes.len - res.ref.len
           /\ out.op = "deref" => out.val = arg.count

\* The Ref of 7 elements of { u16-aligned [u8; 2], [u8] } covers 10 bytes, and
\* dereferences to 8 elements.
C29_Witness ==
    /\ res.op = "from_prefix_with_elems" /\ res.status = "Ok"
    /\ arg.T = "dst212" /\ arg.count = 7
    /\ out.op = "deref" /\ out.val = 8

-----------------------------------------------------------------------------
(* The unaligned constructors *)

UnalignedOps ==
    {"unaligned_from", "unaligned_from_prefix", "unaligned_from_suffix",
     "unaligned_from_prefix_with_elems", "unaligned_from_suffix_with_elems"}

\* C30: for a type of alignment 1 the unaligned constructors never panic:
\* whatever the address, the length and the count, the cast underneath reports
\* no Alignment error, the unreachable!() arm is not reached, and the only
\* failure is a Size error.
C30_UnalignedNeverPanics ==
    /\ ~panicked
    /\ res.op \in UnalignedOps
          => /\ res.status \in {"Ok", "Err"}
             /\ res.status = "Err" => res.err = "Size"
             /\ res.status = "Ok" <=> r.live

C30_Witness ==
    /\ res.op = "unaligned_from_suffix_with_elems"
    /\ arg.T = "slice_arr3" /\ arg.count = 1 /\ arg.bytes.len = 3
    /\ arg.bytes.addr % 2 = 1
    /\ res.status = "Ok" /\ r.live /\ r.bytes.addr % 2 = 1

====
